---------------------------- MODULE Spec2Model ----------------------------
(***************************************************************************)
(* A model of braingeneers.analysis.SpikeData and of the free functions    *)
(* of src/braingeneers/analysis/analysis.py that work on spike rasters.    *)
(*                                                                         *)
(* Spike times, bin sizes, lengths and offsets are integers (milliseconds);*)
(* quotients that the code computes in floating point are kept exact as    *)
(* numerator/denominator pairs.  A numpy array is a sequence of times      *)
(* together with an identity (an element of `ids`), so that copying and    *)
(* aliasing can be told apart.  A Python None is the empty set and a       *)
(* present value v is {v}.                                                 *)
(***************************************************************************)
EXTENDS Integers, Sequences, FiniteSets, TLC

VARIABLES
    sd,     \* the receiver SpikeData (self), or NoStore before construction
    other,  \* the SpikeData passed as argument to the last operation
    res,    \* what the last operation returned: a sequence of SpikeData
    op,     \* the last operation and its arguments
    mat,    \* the raster the last binning call returned
    vec     \* the per-unit values the last raster statistic returned

vars == <<sd, other, res, op, mat, vec>>

\* The variables the store operations never touch.
analysis == <<mat, vec>>

---------------------------------------------------------------------------
\* Bounds of the model.

MaxUnits == 2       \* unit indices of constructor inputs are 0..MaxUnits-1
MaxTime == 2        \* spike times of constructor inputs are 0..MaxTime
MaxEvents == 3      \* number of (index, time) events of a constructor input
MaxOffset == 1      \* offsets passed to append are -1..MaxOffset
MaxWindow == 2      \* window lengths passed to frames are 1..MaxWindow
MaxBin == 2         \* bin sizes passed to the binning operations are 1..MaxBin
MaxBinEvents == 2   \* spikes of a store that is binned (the worked example has 3)
MaxRawEvents == 2   \* length of each sequence of an unchecked constructor call

---------------------------------------------------------------------------
\* Generic helpers.

None == {}
Some(v) == {v}
Val(o) == CHOOSE v \in o : TRUE

Range(s) == {s[i] : i \in 1..Len(s)}

Max(S) == CHOOSE x \in S : \A y \in S : y <= x

Min2(a, b) == IF a <= b THEN a ELSE b
Max2(a, b) == IF a >= b THEN a ELSE b

RECURSIVE SumSeq(_)
SumSeq(s) == IF s = <<>> THEN 0 ELSE s[1] + SumSeq(Tail(s))

\* Sequences over S of length at most n.
SeqsUpTo(S, n) == UNION {[1..k -> S] : k \in 0..n}

IsSorted(s) == \A i \in 1..(Len(s) - 1) : s[i] <= s[i + 1]

\* The number of positions of s holding a value that satisfies Test.
Count(s, Test(_)) == Cardinality({i \in 1..Len(s) : Test(s[i])})

\* The multiset of the elements of s, as a function value -> multiplicity.
BagOf(s) == [v \in Range(s) |-> Cardinality({i \in 1..Len(s) : s[i] = v})]

---------------------------------------------------------------------------
\* numpy arrays and their identities.

\* The n smallest array identities that no live array uses, in order: the
\* identities of n newly allocated arrays.
FreshIds(n, live) ==
    LET cand == (1..(Cardinality(live) + n)) \ live
    IN  [i \in 1..n |-> CHOOSE x \in cand :
                            Cardinality({y \in cand : y < x}) = i - 1]

RECURSIVE Insert(_, _)
Insert(x, s) ==
    IF s = <<>> THEN <<x>>
    ELSE IF x <= s[1] THEN <<x>> \o s
    ELSE <<s[1]>> \o Insert(x, Tail(s))

\* np.sort(times): the times in non-decreasing order, in a new array.
RECURSIVE NpSortRec(_)
NpSortRec(s) == IF s = <<>> THEN <<>> ELSE Insert(s[1], NpSortRec(Tail(s)))

\* The times left in the order given.
Unsorted(s) == s

NpSort(s) == NpSortRec(s)

\* The identities a constructor would give its trains if it kept the arrays
\* it was passed and allocated only the padding.
AliasedIds(argIds, n, live) ==
    LET fresh == FreshIds(n, live)
    IN  [i \in 1..n |-> IF i <= Len(argIds) THEN argIds[i] ELSE fresh[i]]

\* The identities of the n arrays that `[np.sort(times) for times in
\* self.train]` and the padding with np.array([], float) produce: np.sort
\* never returns its argument, so all n are new.
SortedCopyIds(argIds, n, live) == FreshIds(n, live)

\* times[idces == i]: the entries of `times` at the positions where `idces`
\* holds i, in order (both of the same length).
RECURSIVE TakeWhere(_, _, _)
TakeWhere(times, idces, i) ==
    IF times = <<>> THEN <<>>
    ELSE (IF idces[1] = i THEN <<times[1]>> ELSE <<>>)
         \o TakeWhere(Tail(times), Tail(idces), i)

---------------------------------------------------------------------------
\* SpikeData objects.

\* A SpikeData: train (one sequence of times per unit), ids (the identity of
\* each array of train), length and N.  ok = FALSE stands for a call that
\* raised `err` and produced no object.
Raised(e) ==
    [ok |-> FALSE, err |-> e, train |-> <<>>, ids |-> <<>>,
     length |-> 0, N |-> 0]

NoStore == Raised("none")

Store(train, ids, length, n) ==
    [ok |-> TRUE, err |-> "", train |-> train, ids |-> ids,
     length |-> length, N |-> n]

\* _train_from_i_t_list(idces, times, N): N is None or Some(n).  The boolean
\* mask idces == i has the length of idces, and numpy raises IndexError when
\* it indexes an array of another length.
train_from_i_t_list(idces, times, N) ==
    IF N = None /\ idces = <<>>
    THEN [ok |-> FALSE, err |-> "ValueError", train |-> <<>>]
    ELSE LET n == IF N = None THEN Max(Range(idces)) + 1 ELSE Val(N)
         IN  IF n <= 0
             THEN [ok |-> TRUE, err |-> "", train |-> <<>>]
             ELSE IF Len(idces) # Len(times)
             THEN [ok |-> FALSE, err |-> "IndexError", train |-> <<>>]
             ELSE [ok |-> TRUE, err |-> "",
                   train |-> [i \in 1..n |-> TakeWhere(times, idces, i - 1)]]

\* The part of SpikeData.__init__ that parses the arguments into self.train.
\* arg2 is None or Some(times).  With one argument, a list whose elements
\* all have length 2 is read as (index, time) pairs, any other list as one
\* sequence of times per unit.  keeps = TRUE when self.train is arg1 itself.
ParseArgs(arg1, arg2, N) ==
    IF arg2 # None
    THEN train_from_i_t_list(arg1, Val(arg2), N) @@ [keeps |-> FALSE]
    ELSE IF \A k \in 1..Len(arg1) : Len(arg1[k]) = 2
    THEN train_from_i_t_list([k \in 1..Len(arg1) |-> arg1[k][1]],
                             [k \in 1..Len(arg1) |-> arg1[k][2]], N)
         @@ [keeps |-> FALSE]
    ELSE [ok |-> TRUE, err |-> "", train |-> arg1, keeps |-> TRUE]

\* SpikeData.__init__(arg1, arg2, N=N, length=length).  argIds are the
\* identities of the arrays of arg1 when arg1 is a list of arrays; live are
\* the identities in use when the constructor runs.
SpikeDataInit(arg1, arg2, N, length, argIds, live) ==
    LET p == ParseArgs(arg1, arg2, N)
        sorted == [i \in 1..Len(p.train) |-> NpSort(p.train[i])]
        lasts == {sorted[i][Len(sorted[i])] :
                    i \in {j \in 1..Len(sorted) : sorted[j] # <<>>}}
        padded == IF N # None /\ Len(sorted) < Val(N)
                  THEN sorted \o [i \in 1..(Val(N) - Len(sorted)) |-> <<>>]
                  ELSE sorted
    IN  IF ~p.ok THEN Raised(p.err)
        ELSE IF length = None /\ lasts = {} THEN Raised("ValueError")
        ELSE Store(padded,
                   SortedCopyIds(IF p.keeps THEN argIds ELSE <<>>,
                                 Len(padded), live),
                   IF length = None THEN Max(lasts) ELSE Val(length),
                   Len(padded))

---------------------------------------------------------------------------
\* Methods of SpikeData that derive stores.

IdsOf(s) == Range(s.ids)

\* The positions 1..N of s whose unit index (position - 1) is in units, in
\* order: `[ts for i, ts in enumerate(self.train) if cond(i)]` with by=None.
Selected(s, units) ==
    SelectSeq([i \in 1..Len(s.train) |-> i], LAMBDA i : (i - 1) \in units)

\* SpikeData.subset(units): the selected arrays of self.train themselves are
\* handed to the constructor.
subset(s, units, live) ==
    LET idx == Selected(s, units)
        train == [k \in 1..Len(idx) |-> s.train[idx[k]]]
        argIds == [k \in 1..Len(idx) |-> s.ids[idx[k]]]
    IN  SpikeDataInit(train, None, Some(Len(train)), Some(s.length),
                      argIds, live)

\* The bounds subtime works with, after None, negative and too large values
\* have been replaced.
SubtimeStart(s, start) ==
    IF start = None THEN 0
    ELSE IF Val(start) < 0 THEN Val(start) + s.length
    ELSE Val(start)

SubtimeEnd(s, end) ==
    IF end = None THEN s.length
    ELSE IF Val(end) < 0 THEN Val(end) + s.length
    ELSE IF Val(end) > s.length THEN s.length
    ELSE Val(end)

\* t[(t > lower) & (t <= end)] - start, where lower is start if start > 0
\* and -inf otherwise.
RECURSIVE TimeMask(_, _, _)
TimeMask(t, st, en) ==
    IF t = <<>> THEN <<>>
    ELSE (IF (st <= 0 \/ t[1] > st) /\ t[1] <= en
          THEN <<t[1] - st>> ELSE <<>>)
         \o TimeMask(Tail(t), st, en)

\* SpikeData.subtime(start, end): start and end are None or Some(v).  The
\* masked and shifted arrays are temporaries allocated by numpy.
subtime(s, start, end, live) ==
    LET st == SubtimeStart(s, start)
        en == SubtimeEnd(s, end)
        train == [i \in 1..Len(s.train) |-> TimeMask(s.train[i], st, en)]
        tmp == FreshIds(Len(train), live)
    IN  SpikeDataInit(train, None, Some(s.N), Some(en - st),
                      tmp, live \cup Range(tmp))

Shifted(t, d) == [k \in 1..Len(t) |-> t[k] + d]

\* SpikeData.append(spikeData, offset).
append(s, o, offset, live) ==
    IF s.N # o.N THEN Raised("AssertionError")
    ELSE LET n == Min2(Len(s.train), Len(o.train))
             train == [i \in 1..n |->
                         s.train[i] \o Shifted(o.train[i], s.length + offset)]
             tmp == FreshIds(n, live)
         IN  SpikeDataInit(train, None, Some(s.N),
                           Some(s.length + o.length + offset),
                           tmp, live \cup Range(tmp))

\* np.arange(0, self.length, step) for step > 0, as a sequence.
Arange(stop, step) ==
    LET n == IF stop <= 0 THEN 0 ELSE ((stop - 1) \div step) + 1
    IN  [k \in 1..n |-> (k - 1) * step]

\* SpikeData.frames(length, overlap): the stores the generator yields, in
\* order; each is allocated while the earlier ones are alive.
RECURSIVE FramesFrom(_, _, _, _)
FramesFrom(s, starts, length, live) ==
    IF starts = <<>> THEN <<>>
    ELSE LET f == subtime(s, Some(starts[1]), Some(starts[1] + length), live)
         IN  <<f>> \o FramesFrom(s, Tail(starts), length, live \cup IdsOf(f))

frames(s, length, overlap, live) ==
    FramesFrom(s, Arange(s.length, length - overlap), length, live)

\* SpikeData.concatenate_spike_data(sd): self after the call.  The call
\* returns nothing and extends self.train with the arrays of sd.train (of
\* sd.subtime(0, self.length) when the lengths differ).
concatenate_spike_data(s, o, live) ==
    LET o2 == IF o.length = s.length THEN o
              ELSE subtime(o, Some(0), Some(s.length), live)
    IN  IF ~o2.ok THEN s
        ELSE [s EXCEPT !.train = @ \o o2.train,
                       !.ids = @ \o o2.ids,
                       !.N = @ + o2.N]

---------------------------------------------------------------------------
\* Inputs of the constructor.

Units == 0..(MaxUnits - 1)
Times == 0..MaxTime

\* (index, time) events in any order, at most n of them.
EventSeqs(n) == SeqsUpTo(Units \X Times, n)

\* Lists of k sequences of times holding at most `budget` times together.
RECURSIVE TrainLists(_, _)
TrainLists(k, budget) ==
    IF k = 0 THEN {<<>>}
    ELSE UNION {{<<t>> \o rest : rest \in TrainLists(k - 1, budget - Len(t))} :
                    t \in SeqsUpTo(Times, budget)}

Call(arg1, arg2, N, length) ==
    [arg1 |-> arg1, arg2 |-> arg2, N |-> N, length |-> length]

\* SpikeData(idces, times, N=N, length=length) with sequences of one length.
PairCalls(n, Ns, lengths) ==
    {Call([k \in 1..Len(e) |-> e[k][1]],
          Some([k \in 1..Len(e) |-> e[k][2]]), N, length) :
        e \in EventSeqs(n), N \in Ns, length \in lengths}

\* SpikeData(list_of_trains, N=N, length=length).
ListCalls(n, Ns, lengths) ==
    {Call(tr, None, N, length) :
        tr \in UNION {TrainLists(k, n) : k \in 1..MaxUnits},
        N \in Ns, length \in lengths}

\* The calls of the constructor whose input the specification accepts: times
\* that are not negative, sequences of one length, a positive length.
ValidNs == {None, Some(MaxUnits)}
ValidLengths == {None} \cup {Some(l) : l \in 1..MaxTime}

ValidPairCalls == PairCalls(MaxEvents, ValidNs, ValidLengths)
ValidListCalls == ListCalls(MaxEvents, ValidNs, ValidLengths)

TimeArgs == {None} \cup {Some(v) : v \in (-1)..MaxTime}

---------------------------------------------------------------------------
\* The store operations as steps of a program that builds a SpikeData and
\* goes on deriving stores from it.

NoOp ==
    [name |-> "none", units |-> {}, start |-> None, end |-> None,
     offset |-> 0, window |-> 0, overlap |-> 0]

NoMat == [kind |-> "none"]

Init ==
    /\ sd = NoStore
    /\ other = NoStore
    /\ res = <<>>
    /\ op = NoOp
    /\ mat = NoMat
    /\ vec = <<>>

\* The objects an operation can take as its argument: the receiver itself
\* and the stores the last operation returned.
Args == {sd} \cup {res[k] : k \in {j \in 1..Len(res) : res[j].ok}}

\* The program holds a store and has not derived anything from it yet.
Fresh == sd.ok /\ op.name \in {"init", "adopt"}

\* The program holds a store and at most what one subset call returned: the
\* objects it passes on as arguments.
Derived == sd.ok /\ op.name \in {"init", "adopt", "subset"}

\* The stores the program goes on with: those no larger than what the
\* constructor is given here, which keeps the reachable stores finite.
Small(s) ==
    /\ s.N <= MaxUnits
    /\ s.length \in 0..MaxTime
    /\ SumSeq([i \in 1..Len(s.train) |-> Len(s.train[i])]) <= MaxEvents
    /\ \A i \in 1..Len(s.train) : Range(s.train[i]) \subseteq Times

\* sd = SpikeData(...): a call that raises leaves no object behind.
Built(c) ==
    LET s == SpikeDataInit(c.arg1, c.arg2, c.N, c.length, <<>>, {})
    IN  /\ s.ok
        /\ sd' = s

Construct ==
    /\ op.name = "none"
    /\ \/ \E c \in ValidPairCalls : Built(c)
       \/ \E c \in ValidListCalls : Built(c)
    /\ other' = NoStore
    /\ res' = <<>>
    /\ op' = [NoOp EXCEPT !.name = "init"]
    /\ UNCHANGED analysis

CallSubset ==
    /\ Fresh
    /\ \E units \in SUBSET Units :
         /\ res' = <<subset(sd, units, IdsOf(sd))>>
         /\ op' = [NoOp EXCEPT !.name = "subset", !.units = units]
    /\ other' = NoStore
    /\ UNCHANGED sd
    /\ UNCHANGED analysis

CallSubtime ==
    /\ Fresh
    /\ \E start \in TimeArgs, end \in TimeArgs :
         /\ res' = <<subtime(sd, start, end, IdsOf(sd))>>
         /\ op' = [NoOp EXCEPT !.name = "subtime", !.start = start,
                               !.end = end]
    /\ other' = NoStore
    /\ UNCHANGED sd
    /\ UNCHANGED analysis

CallFrames ==
    /\ Fresh
    /\ \E window \in 1..MaxWindow, overlap \in 0..(MaxWindow - 1) :
         /\ window - overlap > 0
         /\ res' = frames(sd, window, overlap, IdsOf(sd))
         /\ op' = [NoOp EXCEPT !.name = "frames", !.window = window,
                               !.overlap = overlap]
    /\ other' = NoStore
    /\ UNCHANGED sd
    /\ UNCHANGED analysis

\* Two adjacent slices of one store, cut at m:
\* sd.subtime(0, m) and sd.subtime(m, sd.length).
CallSlices ==
    /\ Fresh
    /\ \E m \in 1..(sd.length - 1) :
         LET a == subtime(sd, Some(0), Some(m), IdsOf(sd))
             b == subtime(sd, Some(m), Some(sd.length),
                          IdsOf(sd) \cup IdsOf(a))
         IN  /\ res' = <<a, b>>
             /\ op' = [NoOp EXCEPT !.name = "slices", !.start = Some(m)]
    /\ other' = NoStore
    /\ UNCHANGED sd
    /\ UNCHANGED analysis

CallAppend ==
    /\ Derived
    /\ \E x \in Args, offset \in (-1)..MaxOffset :
         /\ res' = <<append(sd, x, offset, IdsOf(sd) \cup IdsOf(x))>>
         /\ other' = x
         /\ op' = [NoOp EXCEPT !.name = "append", !.offset = offset]
    /\ UNCHANGED sd
    /\ UNCHANGED analysis

CallConcatenate ==
    /\ Derived
    /\ \E x \in Args :
         /\ sd.N + x.N <= MaxUnits
         /\ sd' = concatenate_spike_data(sd, x, IdsOf(sd) \cup IdsOf(x))
         /\ other' = x
    /\ res' = <<>>
    /\ op' = [NoOp EXCEPT !.name = "concatenate_spike_data"]
    /\ UNCHANGED analysis

\* The identities of a store renamed in order of first appearance; which
\* identity an array has does not matter, only which arrays share one.
Renamed(s) ==
    LET first(i) == CHOOSE j \in 1..i :
                        /\ s.ids[j] = s.ids[i]
                        /\ \A k \in 1..(j - 1) : s.ids[k] # s.ids[i]
        firsts == {i \in 1..Len(s.ids) : first(i) = i}
    IN  [s EXCEPT !.ids = [i \in 1..Len(s.ids) |->
                             Cardinality({j \in firsts : j <= first(i)})]]

\* The program drops every other object and goes on with the receiver or
\* with a store the last operation returned.
Adopt ==
    /\ op.name \notin {"none", "init", "adopt"}
    /\ \E s \in Args :
         /\ s.ok
         /\ Small(s)
         /\ sd' = Renamed(s)
    /\ other' = NoStore
    /\ res' = <<>>
    /\ op' = [NoOp EXCEPT !.name = "adopt"]
    /\ UNCHANGED analysis

Next ==
    \/ Construct
    \/ CallSubset
    \/ CallSubtime
    \/ CallFrames
    \/ CallSlices
    \/ CallAppend
    \/ CallConcatenate
    \/ Adopt

Spec == Init /\ [][Next]_vars

---------------------------------------------------------------------------
\* Properties of the store operations, checked under Spec.

AllSorted(s) == \A i \in 1..Len(s.train) : IsSorted(s.train[i])

\* C1: every array of train of every SpikeData the program holds (the
\* receiver, the argument, each returned store) is in non-decreasing order,
\* after construction and after any sequence of subset, subtime, frames and
\* append.
SortInvariant ==
    /\ AllSorted(sd)
    /\ AllSorted(other)
    /\ \A k \in 1..Len(res) : AllSorted(res[k])

\* C1 witness: an append whose concatenated arrays were out of order (a
\* negative offset or spikes beyond the receiver's length) and whose result
\* holds at least three spikes in order.
SortWitness ==
    /\ op.name = "append"
    /\ res[1].ok
    /\ \E i \in 1..Len(sd.train) :
         /\ ~IsSorted(sd.train[i]
                      \o Shifted(other.train[i], sd.length + op.offset))
         /\ Len(res[1].train[i]) >= 3
         /\ IsSorted(res[1].train[i])

\* The spikes of t that the documented range of subtime keeps, each shifted
\* to t - st: st < t <= en, or 0 <= t <= en when st = 0.
KeptShifted(t, st, en) ==
    LET kept == SelectSeq(t, LAMBDA x :
                    (IF st = 0 THEN 0 <= x ELSE st < x) /\ x <= en)
    IN  [k \in 1..Len(kept) |-> kept[k] - st]

\* The bound v of a subtime call, a negative one replaced by v + length.
FromEnd(s, v) == IF v < 0 THEN v + s.length ELSE v

\* C4: for 0 <= start <= end <= length (a negative start or end first
\* replaced by start + length or end + length), subtime(start, end) returns
\* a store of length end - start with the same N whose train i holds exactly
\* the spikes of train i in the documented range, each shifted by -start.
TimeSliceRange ==
    (op.name = "subtime" /\ op.start # None /\ op.end # None)
    => LET st == FromEnd(sd, Val(op.start))
           en == FromEnd(sd, Val(op.end))
       IN  (0 <= st /\ st <= en /\ en <= sd.length)
           => /\ res[1].ok
              /\ res[1].length = en - st
              /\ res[1].N = sd.N
              /\ Len(res[1].train) = Len(sd.train)
              /\ \A i \in 1..Len(sd.train) :
                    res[1].train[i] = KeptShifted(sd.train[i], st, en)

\* C5: for 0 < m < length, every spike of every unit i appears exactly once
\* in subtime(0, m).train[i] together with subtime(m, length).train[i]
\* shifted back by m, and nothing else appears there.
TimeSlicePartition ==
    op.name = "slices"
    => /\ res[1].ok /\ res[2].ok
       /\ Len(res[1].train) = Len(sd.train)
       /\ Len(res[2].train) = Len(sd.train)
       /\ \A i \in 1..Len(sd.train) :
             BagOf(res[1].train[i] \o Shifted(res[2].train[i], Val(op.start)))
                 = BagOf(sd.train[i])

\* C6: a.append(b, offset) fails when a.N # b.N; otherwise the result has
\* N = a.N, length = a.length + b.length + offset and train i equal to
\* a.train[i] followed by the times of b.train[i] increased by
\* a.length + offset.
AppendResult ==
    op.name = "append"
    => IF sd.N # other.N
       THEN ~res[1].ok
       ELSE /\ res[1].ok
            /\ res[1].N = sd.N
            /\ res[1].length = sd.length + other.length + op.offset
            /\ Len(res[1].train) = Len(sd.train)
            /\ \A i \in 1..Len(sd.train) :
                  res[1].train[i]
                      = sd.train[i]
                        \o Shifted(other.train[i], sd.length + op.offset)

Transformations ==
    {"subset", "subtime", "frames", "slices", "append",
     "concatenate_spike_data"}

NoAlias(r, s, o) ==
    \A k \in 1..Len(r) : IdsOf(r[k]) \cap (IdsOf(s) \cup IdsOf(o)) = {}

---------------------------------------------------------------------------
\* The constructor alone, called with whatever a caller may pass: index and
\* time sequences of different lengths, negative times, and any length.

RawTimes == (-1)..MaxTime
RawNs == {None} \cup {Some(n) : n \in 0..MaxUnits}
RawLengths == {None} \cup {Some(l) : l \in (-1)..MaxTime}

\* SpikeData(idces, times, N=N, length=length).
RawPairCalls ==
    {Call(idces, Some(times), N, length) :
        idces \in SeqsUpTo(Units, MaxRawEvents),
        times \in SeqsUpTo(RawTimes, MaxRawEvents),
        N \in RawNs, length \in RawLengths}

\* The lists of trains of RawListCalls, with times from RawTimes.
RECURSIVE RawTrainLists(_, _)
RawTrainLists(k, budget) ==
    IF k = 0 THEN {<<>>}
    ELSE UNION {{<<t>> \o rest :
                    rest \in RawTrainLists(k - 1, budget - Len(t))} :
                    t \in SeqsUpTo(RawTimes, budget)}

\* SpikeData(list_of_trains, N=N, length=length).
RawListCalls ==
    {Call(tr, None, N, length) :
        tr \in UNION {RawTrainLists(k, MaxRawEvents) : k \in 1..MaxUnits},
        N \in RawNs, length \in RawLengths}

\* sd = SpikeData(...), the call kept in op and what it returned or raised
\* in res.
Called(c, fmt) ==
    LET s == SpikeDataInit(c.arg1, c.arg2, c.N, c.length, <<>>, {})
    IN  /\ sd' = IF s.ok THEN s ELSE NoStore
        /\ res' = <<s>>
        /\ op' = [name |-> "init", fmt |-> fmt, arg1 |-> c.arg1,
                  arg2 |-> c.arg2, N |-> c.N, length |-> c.length]

ConstructPairs ==
    /\ op.name = "none"
    /\ \E c \in RawPairCalls : Called(c, "pairs")
    /\ UNCHANGED <<other, analysis>>

ConstructList ==
    /\ op.name = "none"
    /\ \E c \in RawListCalls : Called(c, "list")
    /\ UNCHANGED <<other, analysis>>

CtorNext ==
    \/ ConstructPairs
    \/ ConstructList

SpecCtor == Init /\ [][CtorNext]_vars

\* The times a constructor call passes, whatever its format.
CallTimes ==
    IF op.fmt = "pairs" THEN Range(Val(op.arg2))
    ELSE UNION {Range(op.arg1[k]) : k \in 1..Len(op.arg1)}

\* C8: a constructor call with index and time sequences of different
\* lengths, or with a negative spike time, fails and yields no store.
ConstructRejectsBadInput ==
    (/\ op.name = "init"
     /\ \/ op.fmt = "pairs" /\ Len(op.arg1) # Len(Val(op.arg2))
        \/ \E t \in CallTimes : t < 0)
    => ~res[1].ok

\* C9: a constructor call with length <= 0 fails and yields no store.
ConstructRejectsBadLength ==
    (/\ op.name = "init"
     /\ op.length # None
     /\ Val(op.length) <= 0)
    => ~res[1].ok

---------------------------------------------------------------------------
\* Binning and the Fano factor.  Times, lengths and bin sizes are integers
\* and a bin size is positive, so t / bin_size is an exact rational and
\* np.ceil of it is Ceil below.  A Fano factor is a rational, kept as the
\* pair <<numerator, denominator>> with a positive denominator.

\* np.ceil(a / b) for b > 0.
Ceil(a, b) == -((-a) \div b)

\* ts // bin_size, the bin of the earlier sparse_raster.
FloorBinIndex(t, bin_size) == t \div bin_size

\* np.ceil(ts / bin_size) - 1
BinIndex(t, bin_size) == Ceil(t, bin_size) - 1

\* A clip that leaves its argument alone.
Unclipped(x, lo, hi) == x

\* np.clip(x, lo, hi), which numpy computes as minimum(maximum(x, lo), hi).
Clip(x, lo, hi) == Min2(Max2(x, lo), hi)

\* np.hstack(list of arrays)
RECURSIVE Hstack(_)
Hstack(l) == IF l = <<>> THEN <<>> ELSE l[1] \o Hstack(Tail(l))

\* np.cumsum(a)
Cumsum(a) == [k \in 1..Len(a) |-> SumSeq(SubSeq(a, 1, k))]

\* sd.sparse_raster(bin_size): the compressed-row matrix (values, indices,
\* indptr) of shape (N, ceil(length / bin_size)).
sparse_raster(s, bin_size) ==
    LET indices == Hstack([i \in 1..s.N |->
                        [k \in 1..Len(s.train[i]) |->
                            BinIndex(s.train[i][k], bin_size)]])
        units == <<0>> \o [i \in 1..s.N |-> Len(s.train[i])]
        indptr == Cumsum(units)
        values == [k \in 1..Len(indices) |-> 1]
        length == Ceil(s.length, bin_size)
    IN  [kind |-> "sparse", bin_size |-> bin_size,
         values |-> values,
         indices |-> [k \in 1..Len(indices) |->
                        Clip(indices[k], 0, length - 1)],
         indptr |-> indptr,
         shape |-> <<s.N, length>>]

\* Entry (i, j) of a compressed-row matrix, rows and columns counted from 1:
\* the stored values of row i whose column index is j - 1, added up.
Entry(m, i, j) ==
    SumSeq([k \in 1..Len(m.values) |->
                IF /\ k > m.indptr[i]
                   /\ k <= m.indptr[i + 1]
                   /\ m.indices[k] = j - 1
                THEN m.values[k] ELSE 0])

\* m.toarray()
toarray(m) ==
    [kind |-> "dense", bin_size |-> m.bin_size,
     rows |-> [i \in 1..m.shape[1] |->
                [j \in 1..m.shape[2] |-> Entry(m, i, j)]]]

\* sd.raster(bin_size)
raster(s, bin_size) == toarray(sparse_raster(s, bin_size))

\* sd.binned(bin_size): the column sums of the sparse raster.
binned(s, bin_size) ==
    LET m == sparse_raster(s, bin_size)
    IN  [kind |-> "binned", bin_size |-> bin_size,
         sums |-> [j \in 1..m.shape[2] |->
                    SumSeq([i \in 1..m.shape[1] |-> Entry(m, i, j)])]]

Rat(n, d) == <<n, d>>
RatEq(a, b) == a[1] * b[2] = b[1] * a[2]
RatSub(a, b) == Rat(a[1] * b[2] - b[1] * a[2], a[2] * b[2])
RatDiv(a, b) == Rat(a[1] * b[2], a[2] * b[1])
RatIsZero(a) == a[1] = 0

\* raster.mean(1) of a dense array.
DenseMean(rows) ==
    [i \in 1..Len(rows) |-> Rat(SumSeq(rows[i]), Len(rows[i]))]

\* raster.var(1) of a dense array: the mean of (x - x.mean()) ** 2, which
\* with S the sum of the row and c its length is sum((c*x - S)**2) / c**3.
DenseVar(rows) ==
    [i \in 1..Len(rows) |->
        LET c == Len(rows[i])
            S == SumSeq(rows[i])
        IN  Rat(SumSeq([j \in 1..c |-> (c * rows[i][j] - S) * (c * rows[i][j] - S)]),
                c * c * c)]

\* a[mask] = v where mask is `of == 0`
SetWhereZero(a, of, v) ==
    [i \in 1..Len(a) |-> IF RatIsZero(of[i]) THEN v ELSE a[i]]

\* fano_factors(raster) of a dense array.  The chained assignment
\*     mean[mean == 0] = var[mean == 0] = 1.0
\* assigns its targets from left to right, so the mask of the second target
\* is computed from the mean the first assignment has already changed.
fano_dense(rows) ==
    LET mean0 == DenseMean(rows)
        var0 == DenseVar(rows)
        mean1 == SetWhereZero(mean0, mean0, Rat(1, 1))
        var1 == SetWhereZero(var0, mean1, Rat(1, 1))
    IN  [i \in 1..Len(rows) |-> RatDiv(var1[i], mean1[i])]

\* fano_factors(raster) of a sparse matrix.
fano_sparse(m) ==
    LET N == m.shape[1]
        c == m.shape[2]
        mean0 == [i \in 1..N |->
                    Rat(SumSeq([j \in 1..c |-> Entry(m, i, j)]), c)]
        moment0 == [i \in 1..N |->
                    Rat(SumSeq([j \in 1..c |->
                            Entry(m, i, j) * Entry(m, i, j)]), c)]
        moment1 == SetWhereZero(moment0, mean0, Rat(2, 1))
        mean1 == SetWhereZero(mean0, mean0, Rat(1, 1))
    IN  [i \in 1..N |-> RatSub(RatDiv(moment1[i], mean1[i]), mean1[i])]

fano_factors(m) ==
    IF m.kind = "sparse" THEN fano_sparse(m) ELSE fano_dense(m.rows)

\* The worked example of the binning rule: one unit firing at 0, 5 and 10,
\* observed for 10 and binned by 5.
Example == [train |-> <<0, 5, 10>>, length |-> 10, bin_size |-> 5]

BinTimes == (-1)..(MaxTime + 1)
BinSizes == (1..MaxBin) \cup {Example.bin_size}

\* sd = SpikeData(idces, times, N=N, length=length) with a positive length;
\* some of the times lie beyond it.  The second call is the worked example.
Observe ==
    /\ op.name = "none"
    /\ \/ \E n \in 0..MaxBinEvents :
            \E idces \in [1..n -> Units] : \E times \in [1..n -> BinTimes] :
                \E N \in ValidNs : \E length \in 1..MaxTime :
                    Built(Call(idces, Some(times), N, Some(length)))
       \/ Built(Call(<<0, 0, 0>>, Some(Example.train), None,
                     Some(Example.length)))
    /\ op' = [NoOp EXCEPT !.name = "init"]
    /\ UNCHANGED <<other, res, analysis>>

CallSparseRaster ==
    /\ sd.ok
    /\ mat.kind = "none"
    /\ \E bin_size \in BinSizes : mat' = sparse_raster(sd, bin_size)
    /\ UNCHANGED <<sd, other, res, op, vec>>

CallRaster ==
    /\ sd.ok
    /\ mat.kind = "none"
    /\ \E bin_size \in BinSizes : mat' = raster(sd, bin_size)
    /\ UNCHANGED <<sd, other, res, op, vec>>

CallBinned ==
    /\ sd.ok
    /\ mat.kind = "none"
    /\ \E bin_size \in BinSizes : mat' = binned(sd, bin_size)
    /\ UNCHANGED <<sd, other, res, op, vec>>

CallFano ==
    /\ mat.kind \in {"sparse", "dense"}
    /\ vec = <<>>
    /\ vec' = fano_factors(mat)
    /\ UNCHANGED <<sd, other, res, op, mat>>

\* An entry of a correlation matrix: NaN, or the real sgn * sqrt(sq) with sq
\* a rational, which keeps cov / (sigma_i * sigma_j) exact.
NaN == [nan |-> TRUE, sgn |-> 0, sq |-> Rat(0, 1)]
Real(sgn, sq) == [nan |-> FALSE, sgn |-> sgn, sq |-> sq]
Sign(x) == IF x > 0 THEN 1 ELSE IF x < 0 THEN -1 ELSE 0
RatMul(a, b) == Rat(a[1] * b[1], a[2] * b[2])

\* The same rational in lowest terms.
RECURSIVE Gcd(_, _)
Gcd(a, b) == IF b = 0 THEN a ELSE Gcd(b, a % b)
Abs(x) == IF x < 0 THEN -x ELSE x
Reduced(a) ==
    LET g == Gcd(Abs(a[1]), a[2])
    IN  Rat(a[1] \div g, a[2] \div g)

\* np.clip(c, -1, 1) of an entry.
ClipUnit(e) ==
    IF ~e.nan /\ e.sq[1] > e.sq[2] THEN Real(e.sgn, Rat(1, 1)) ELSE e

\* np.corrcoef(rows): c = np.cov(rows), divided by the outer product of
\* sqrt(diag(c)) and clipped to [-1, 1].  The entries of c are kept times
\* cols**2 * (cols - 1); a row of zero variance has a zero on the diagonal
\* of c, so its row and column, the diagonal included, are 0 / 0 = NaN, and
\* with a single column np.cov divides by 0 and every entry is NaN.
corrcoef(rows) ==
    LET n == Len(rows)
        c == Len(rows[1])
        dev(i, k) == c * rows[i][k] - SumSeq(rows[i])
        cov(i, j) == SumSeq([k \in 1..c |-> dev(i, k) * dev(j, k)])
    IN  [i \in 1..n |-> [j \in 1..n |->
            IF c <= 1 \/ cov(i, i) = 0 \/ cov(j, j) = 0
            THEN NaN
            ELSE ClipUnit(Real(Sign(cov(i, j)),
                               Rat(cov(i, j) * cov(i, j),
                                   cov(i, i) * cov(j, j))))]]

\* A diagonal filled with something other than 1.
ZeroDiagonal(corr) ==
    [i \in 1..Len(corr) |-> [j \in 1..Len(corr) |->
        IF i = j THEN Real(0, Rat(0, 1)) ELSE corr[i][j]]]

\* np.fill_diagonal(corr, 1)
FillDiagonal(corr) ==
    [i \in 1..Len(corr) |-> [j \in 1..Len(corr) |->
        IF i = j THEN Real(1, Rat(1, 1)) ELSE corr[i][j]]]

\* The sparse branch of pearson: a unit with sigma 0 is given an infinite
\* sigma, so every quotient with it is 0; the diagonal is then set to 1.
pearson_sparse(m) ==
    LET n == m.shape[1]
        c == m.shape[2]
        Exy == [i \in 1..n |-> [j \in 1..n |->
                    Rat(SumSeq([k \in 1..c |->
                            Entry(m, i, k) * Entry(m, j, k)]), c)]]
        Ex == [i \in 1..n |->
                    Rat(SumSeq([k \in 1..c |-> Entry(m, i, k)]), c)]
        Ex2 == [i \in 1..n |->
                    Rat(SumSeq([k \in 1..c |->
                            Entry(m, i, k) * Entry(m, i, k)]), c)]
        var == [i \in 1..n |->
                    Reduced(RatSub(Ex2[i], RatMul(Ex[i], Ex[i])))]
        inf == [i \in 1..n |-> RatIsZero(var[i])]
        cov(i, j) == Reduced(RatSub(Exy[i][j], RatMul(Ex[i], Ex[j])))
    IN  FillDiagonal(
            [i \in 1..n |-> [j \in 1..n |->
                IF inf[i] \/ inf[j]
                THEN Real(0, Rat(0, 1))
                ELSE Real(Sign(cov(i, j)[1]),
                          RatDiv(RatMul(cov(i, j), cov(i, j)),
                                 RatMul(var[i], var[j])))]])

\* pearson(spikes)
pearson(m) ==
    IF m.kind # "sparse" THEN corrcoef(m.rows) ELSE pearson_sparse(m)

\* corr = pearson(raster); the raster is kept beside the result.
CallPearson ==
    /\ mat.kind \in {"sparse", "dense"}
    /\ vec = <<>>
    /\ mat' = [kind |-> "pearson", bin_size |-> mat.bin_size,
               of |-> mat, corr |-> pearson(mat)]
    /\ UNCHANGED <<sd, other, res, op, vec>>

RasterNext ==
    \/ Observe
    \/ CallSparseRaster
    \/ CallRaster
    \/ CallBinned
    \/ CallFano
    \/ CallPearson

SpecRaster == Init /\ [][RasterNext]_vars

\* The number of columns the specification states: the c with
\* (c - 1) * bin_size < length <= c * bin_size.
ColumnsOf(length, bin_size) ==
    CHOOSE c \in 0..length :
        (c - 1) * bin_size < length /\ length <= c * bin_size

\* The column the specification states for a spike at t: 0 for t = 0, else
\* the c - 1 with (c - 1) * bin_size < t <= c * bin_size, moved into
\* 0..cols-1 when it lies outside.
ColumnOf(t, bin_size, cols) ==
    LET c == CHOOSE x \in Min2(t, 0)..Max2(t, 0) :
                (x - 1) * bin_size < t /\ t <= x * bin_size
        raw == IF t = 0 THEN 0 ELSE c - 1
    IN  IF raw < 0 THEN 0 ELSE IF raw > cols - 1 THEN cols - 1 ELSE raw

IsExample == sd.train = <<Example.train>> /\ sd.length = Example.length

\* C2: the sparse raster has ceil(length / bin_size) columns, the k-th spike
\* of unit i is stored once in the column of the binning rule (clamped into
\* the columns there are), so the dense raster counts in entry (i, j) the
\* spikes of unit i the rule sends to column j; times [0, 5, 10] binned by 5
\* over a length of 10 give the counts [2, 1].
BinAssignment ==
    LET cols == ColumnsOf(sd.length, mat.bin_size)
    IN  /\ mat.kind = "sparse" =>
            /\ mat.shape = <<sd.N, cols>>
            /\ \A i \in 1..sd.N : \A k \in 1..Len(sd.train[i]) :
                /\ mat.indices[mat.indptr[i] + k]
                        = ColumnOf(sd.train[i][k], mat.bin_size, cols)
                /\ mat.values[mat.indptr[i] + k] = 1
            /\ Len(mat.indices) = mat.indptr[sd.N + 1]
            /\ (IsExample /\ mat.bin_size = Example.bin_size) =>
                    /\ cols = 2
                    /\ mat.indices = <<0, 0, 1>>
        /\ mat.kind = "dense" =>
            /\ Len(mat.rows) = sd.N
            /\ \A i \in 1..sd.N :
                /\ Len(mat.rows[i]) = cols
                /\ \A j \in 1..cols :
                    mat.rows[i][j] = Cardinality(
                        {k \in 1..Len(sd.train[i]) :
                            ColumnOf(sd.train[i][k], mat.bin_size, cols)
                                = j - 1})
            /\ (IsExample /\ mat.bin_size = Example.bin_size) =>
                    mat.rows = <<<<2, 1>>>>

\* The worked example has been binned into the counts [2, 1].
BinAssignmentWitness ==
    /\ IsExample
    /\ mat.kind = "dense"
    /\ mat.bin_size = Example.bin_size
    /\ mat.rows = <<<<2, 1>>>>

\* The sum of row i of a raster, sparse or dense.
RowSum(m, i) ==
    IF m.kind = "sparse"
    THEN SumSeq(SubSeq(m.values, m.indptr[i] + 1, m.indptr[i + 1]))
    ELSE SumSeq(m.rows[i])

\* The spikes of unit i at a time within [0, length].
InRange(s, i) ==
    Cardinality({k \in 1..Len(s.train[i]) :
                    0 <= s.train[i][k] /\ s.train[i][k] <= s.length})

DenseOf(m) == IF m.kind = "sparse" THEN toarray(m).rows ELSE m.rows

\* variance / mean of a row with a spike in it: with S the sum of the row
\* and c its length, sum((c*x - S)**2) / (c**2 * S).
VarOverMean(row) ==
    LET c == Len(row)
        S == SumSeq(row)
    IN  Rat(SumSeq([j \in 1..c |-> (c * row[j] - S) * (c * row[j] - S)]),
            c * c * S)

\* C10: fano_factors returns exactly 1 for each row of zeros of a raster,
\* dense or sparse, and variance / mean of the row for each other row.
FanoSilentIsOne ==
    vec # <<>> =>
        \A i \in 1..Len(vec) :
            LET row == DenseOf(mat)[i]
            IN  IF SumSeq(row) = 0
                THEN RatEq(vec[i], Rat(1, 1))
                ELSE RatEq(vec[i], VarOverMean(row))

IsOne(e) == ~e.nan /\ e.sgn = 1 /\ RatEq(e.sq, Rat(1, 1))
IsZero(e) == ~e.nan /\ (e.sgn = 0 \/ RatIsZero(e.sq))

\* A row of a raster has zero variance when all its counts are equal.
ZeroVariance(row) == \A j, k \in 1..Len(row) : row[j] = row[k]

\* C11: the diagonal of the matrix pearson returns is exactly 1 for every
\* unit of every raster, dense or sparse, units of zero variance included.
PearsonDiagonalOne ==
    mat.kind = "pearson" =>
        \A i \in 1..Len(mat.corr) : IsOne(mat.corr[i][i])

\* C12: in the matrix pearson returns, every off-diagonal entry in the row
\* or column of a unit of zero variance is exactly 0, and no entry is NaN.
PearsonZeroVariance ==
    mat.kind = "pearson" =>
        LET rows == DenseOf(mat.of)
        IN  \A i, j \in 1..Len(mat.corr) :
                /\ ~mat.corr[i][j].nan
                /\ (i # j /\ (ZeroVariance(rows[i]) \/ ZeroVariance(rows[j])))
                        => IsZero(mat.corr[i][j])

\* The sparse branch alone satisfies both statements on the diagonal and on
\* units of zero variance.
PearsonSparseSound ==
    (mat.kind = "pearson" /\ mat.of.kind = "sparse") =>
        LET rows == DenseOf(mat.of)
        IN  \A i, j \in 1..Len(mat.corr) :
                /\ ~mat.corr[i][j].nan
                /\ i = j => IsOne(mat.corr[i][j])
                /\ (i # j /\ (ZeroVariance(rows[i]) \/ ZeroVariance(rows[j])))
                        => IsZero(mat.corr[i][j])

---------------------------------------------------------------------------
\* The spike time tiling coefficient.  Times, delt and length are integers,
\* so every quotient is an exact rational.

MaxDelt == 2        \* delt passed to the tiling operations is 0..MaxDelt

RatAdd(a, b) == Rat(a[1] * b[2] + b[1] * a[2], a[2] * b[2])

\* a[k] for a Python index k, which counts from 0 and from the end when
\* negative.
At(a, k) == a[(k % Len(a)) + 1]

\* np.diff(a)
Diff(a) == [k \in 1..(Len(a) - 1) |-> a[k + 1] - a[k]]

\* _sttc_ta(tA, delt, tmax)
sttc_ta(tA, delt, tmax) ==
    IF Len(tA) = 0 THEN 0
    ELSE LET base == Min2(delt, tA[1]) + Min2(delt, tmax - tA[Len(tA)])
         IN  base + SumSeq([k \in 1..(Len(tA) - 1) |->
                                Min2(Diff(tA)[k], 2 * delt)])

\* np.searchsorted(tB, t): the number of elements of the sorted tB below t.
SearchSorted(tB, t) == Cardinality({k \in 1..Len(tB) : tB[k] < t})

\* A count that looks only at the spike of tB at the clipped index and not
\* at the one before it.
SttcNaOneSided(tA, tB, delt) ==
    IF Len(tB) = 0 THEN 0
    ELSE LET iB == [k \in 1..Len(tA) |->
                        Clip(SearchSorted(tB, tA[k]), 1, Len(tB) - 1)]
         IN  Cardinality({k \in 1..Len(tA) :
                            Abs(At(tB, iB[k]) - tA[k]) <= delt})

\* _sttc_na(tA, tB, delt)
sttc_na(tA, tB, delt) ==
    IF Len(tB) = 0 THEN 0
    ELSE LET iB == [k \in 1..Len(tA) |->
                        Clip(SearchSorted(tB, tA[k]), 1, Len(tB) - 1)]
             dt_left == [k \in 1..Len(tA) |-> Abs(At(tB, iB[k]) - tA[k])]
             dt_right == [k \in 1..Len(tA) |->
                            Abs(At(tB, iB[k] - 1) - tA[k])]
         IN  Cardinality({k \in 1..Len(tA) :
                            Min2(dt_left[k], dt_right[k]) <= delt})

\* A term replaced by 0 when its denominator 1 - P * T is 1.
SttcTermZeroAtOne(P, T) ==
    IF ~RatIsZero(RatMul(P, T))
    THEN RatDiv(RatSub(P, T), RatSub(Rat(1, 1), RatMul(P, T)))
    ELSE Rat(0, 1)

\* (P - T) / (1 - P * T) if P * T != 1 else 0
SttcTerm(P, T) ==
    IF ~RatEq(RatMul(P, T), Rat(1, 1))
    THEN RatDiv(RatSub(P, T), RatSub(Rat(1, 1), RatMul(P, T)))
    ELSE Rat(0, 1)

\* sd.spike_time_tiling(i, j, delt), units counted from 1.
spike_time_tiling(s, i, j, delt) ==
    LET tA == s.train[i]
        tB == s.train[j]
        TA == Rat(sttc_ta(tA, delt, s.length), s.length)
        TB == Rat(sttc_ta(tB, delt, s.length), s.length)
        PA == Rat(sttc_na(tA, tB, delt), Len(tA))
        PB == Rat(sttc_na(tB, tA, delt), Len(tB))
    IN  IF Len(tA) = 0 \/ Len(tB) = 0 THEN Rat(0, 1)
        ELSE RatDiv(RatAdd(SttcTerm(PA, TB), SttcTerm(PB, TA)), Rat(2, 1))

\* spike_time_tiling of the older module braingeneers/analysis.py, which
\* takes P = 1.0 for an empty train and goes through the formula.
legacy_spike_time_tiling(s, i, j, delt) ==
    LET tA == s.train[i]
        tB == s.train[j]
        TA == Rat(sttc_ta(tA, delt, s.length), s.length)
        TB == Rat(sttc_ta(tB, delt, s.length), s.length)
        PA == IF Len(tA) > 0 THEN Rat(sttc_na(tA, tB, delt), Len(tA))
              ELSE Rat(1, 1)
        PB == IF Len(tB) > 0 THEN Rat(sttc_na(tB, tA, delt), Len(tB))
              ELSE Rat(1, 1)
    IN  RatDiv(RatAdd(SttcTerm(PA, TB), SttcTerm(PB, TA)), Rat(2, 1))

\* A matrix filled above the diagonal only.
UpperTilings(s, delt) ==
    [i \in 1..s.N |-> [j \in 1..s.N |->
        IF i = j THEN Rat(1, 1)
        ELSE IF i < j THEN spike_time_tiling(s, i, j, delt)
        ELSE Rat(0, 1)]]

\* sd.spike_time_tilings(delt): np.diag(np.ones(N)), then for i < j
\* ret[i, j] = ret[j, i] = spike_time_tiling(i, j, delt).
spike_time_tilings(s, delt) ==
    [i \in 1..s.N |-> [j \in 1..s.N |->
        IF i = j THEN Rat(1, 1)
        ELSE spike_time_tiling(s, Min2(i, j), Max2(i, j), delt)]]

Delts == 0..MaxDelt

\* sd = SpikeData(idces, times, N=N, length=length) with a positive length
\* and times that are not negative; N is one more than the indices call for,
\* so the last unit has no spikes.
ObserveTrains ==
    /\ op.name = "none"
    /\ \E n \in 0..MaxEvents :
        \E idces \in [1..n -> Units] : \E times \in [1..n -> Times] :
            \E length \in 1..MaxTime :
                Built(Call(idces, Some(times), Some(MaxUnits + 1),
                           Some(length)))
    /\ op' = [NoOp EXCEPT !.name = "init"]
    /\ UNCHANGED <<other, res, analysis>>

CallTiling ==
    /\ sd.ok
    /\ mat.kind = "none"
    /\ \E i, j \in 1..sd.N : \E delt \in Delts :
        mat' = [kind |-> "sttc", module |-> "analysis/analysis.py",
                i |-> i, j |-> j, delt |-> delt,
                value |-> spike_time_tiling(sd, i, j, delt)]
    /\ UNCHANGED <<sd, other, res, op, vec>>

CallLegacyTiling ==
    /\ sd.ok
    /\ mat.kind = "none"
    /\ \E i, j \in 1..sd.N : \E delt \in Delts :
        mat' = [kind |-> "sttc", module |-> "analysis.py",
                i |-> i, j |-> j, delt |-> delt,
                value |-> legacy_spike_time_tiling(sd, i, j, delt)]
    /\ UNCHANGED <<sd, other, res, op, vec>>

CallTilings ==
    /\ sd.ok
    /\ mat.kind = "none"
    /\ \E delt \in Delts :
        mat' = [kind |-> "sttc_matrix", delt |-> delt,
                m |-> spike_time_tilings(sd, delt)]
    /\ UNCHANGED <<sd, other, res, op, vec>>

\* _sttc_na(self.train[i], self.train[j], delt), as spike_time_tiling calls
\* it.
CallSttcNa ==
    /\ sd.ok
    /\ mat.kind = "none"
    /\ \E i, j \in 1..sd.N : \E delt \in Delts :
        mat' = [kind |-> "sttc_na", i |-> i, j |-> j, delt |-> delt,
                value |-> sttc_na(sd.train[i], sd.train[j], delt)]
    /\ UNCHANGED <<sd, other, res, op, vec>>

SttcNext ==
    \/ ObserveTrains
    \/ CallTiling
    \/ CallLegacyTiling
    \/ CallTilings
    \/ CallSttcNa

SpecSttc == Init /\ [][SttcNext]_vars

\* C13: the spike time tiling coefficient of a pair of units of which one
\* has no spike is exactly 0, whatever delt, in either module.
SttcEmptyIsZero ==
    (/\ mat.kind = "sttc"
     /\ Len(sd.train[mat.i]) = 0 \/ Len(sd.train[mat.j]) = 0)
    => RatEq(mat.value, Rat(0, 1))

\* The same of braingeneers/analysis/analysis.py alone.
SttcEmptyIsZeroNow ==
    (/\ mat.kind = "sttc"
     /\ mat.module = "analysis/analysis.py"
     /\ Len(sd.train[mat.i]) = 0 \/ Len(sd.train[mat.j]) = 0)
    => RatEq(mat.value, Rat(0, 1))

\* The proportions and tiled fractions of the pair the last tiling call was
\* made for.
Tiled(i) == Rat(sttc_ta(sd.train[i], mat.delt, sd.length), sd.length)
Near(i, j) ==
    Rat(sttc_na(sd.train[i], sd.train[j], mat.delt), Len(sd.train[i]))
Quotient(P, T) == RatDiv(RatSub(P, T), RatSub(Rat(1, 1), RatMul(P, T)))
Half(a) == Rat(a[1], 2 * a[2])

\* A tiling call of braingeneers/analysis/analysis.py on two units that
\* both have spikes.
TiledPair ==
    /\ mat.kind = "sttc"
    /\ mat.module = "analysis/analysis.py"
    /\ Len(sd.train[mat.i]) > 0
    /\ Len(sd.train[mat.j]) > 0

\* C14 as stated: a term of the coefficient whose denominator 1 - P * T is
\* exactly 1 is replaced by 0, and every other term is the quotient
\* (P - T) / (1 - P * T).
SttcTermZeroWhenDenominatorOne ==
    TiledPair =>
        LET Term(P, T) ==
                IF RatEq(RatSub(Rat(1, 1), RatMul(P, T)), Rat(1, 1))
                THEN Rat(0, 1) ELSE Quotient(P, T)
        IN  RatEq(mat.value,
                  Half(RatAdd(Term(Near(mat.i, mat.j), Tiled(mat.j)),
                              Term(Near(mat.j, mat.i), Tiled(mat.i)))))

\* C14 as the code has it: a term whose product P * T is exactly 1, that is
\* whose denominator 1 - P * T is exactly 0, is replaced by 0, and every
\* other term is the quotient (P - T) / (1 - P * T).
SttcTermZeroWhenProductOne ==
    TiledPair =>
        LET Term(P, T) ==
                IF RatEq(RatMul(P, T), Rat(1, 1))
                THEN Rat(0, 1) ELSE Quotient(P, T)
        IN  RatEq(mat.value,
                  Half(RatAdd(Term(Near(mat.i, mat.j), Tiled(mat.j)),
                              Term(Near(mat.j, mat.i), Tiled(mat.i)))))

\* A coefficient has been computed of which one term has the product 1 and
\* is replaced, and the other has not and is a quotient that is not 0.
SttcTermWitness ==
    /\ TiledPair
    /\ RatEq(RatMul(Near(mat.i, mat.j), Tiled(mat.j)), Rat(1, 1))
    /\ ~RatEq(RatMul(Near(mat.j, mat.i), Tiled(mat.i)), Rat(1, 1))
    /\ ~RatIsZero(mat.value)

\* C15: spike_time_tilings returns an N x N matrix that is symmetric, whose
\* entry off the diagonal is spike_time_tiling of the two units and whose
\* diagonal is exactly 1, for a unit without spikes too.
SttcMatrix ==
    mat.kind = "sttc_matrix" =>
        /\ Len(mat.m) = sd.N
        /\ \A i \in 1..sd.N :
            /\ Len(mat.m[i]) = sd.N
            /\ mat.m[i][i] = Rat(1, 1)
            /\ \A j \in 1..sd.N :
                /\ mat.m[i][j] = mat.m[j][i]
                /\ i # j => RatEq(mat.m[i][j],
                                  spike_time_tiling(sd, i, j, mat.delt))

\* The matrix has been computed for a store with a unit without spikes and
\* two units whose coefficient is not 0.
SttcMatrixWitness ==
    /\ mat.kind = "sttc_matrix"
    /\ \E i \in 1..sd.N : Len(sd.train[i]) = 0 /\ mat.m[i][i] = Rat(1, 1)
    /\ \E i, j \in 1..sd.N : i # j /\ ~RatIsZero(mat.m[i][j])

---------------------------------------------------------------------------
\* Avalanches and the deviation from criticality.  A threshold is a
\* rational, because np.quantile interpolates between two counts.

MaxAvTime == 4      \* times and lengths of a store searched for avalanches
MaxAvEvents == 4    \* its number of spikes
MaxThresh == 1      \* thresholds passed to avalanches are 0..MaxThresh

\* counts > thresh, elementwise.
ActiveBins(counts, thresh) ==
    [k \in 1..Len(counts) |-> counts[k] * thresh[2] > thresh[1]]

\* np.where(np.diff(active))[0]: the Python indices k, in increasing order,
\* with active[k] != active[k + 1].
RECURSIVE TogglesFrom(_, _)
TogglesFrom(active, k) ==
    IF k + 2 > Len(active) THEN <<>>
    ELSE (IF active[k + 1] # active[k + 2] THEN <<k>> ELSE <<>>)
            \o TogglesFrom(active, k + 1)

\* a[start::2]
EverySecond(a, start) ==
    [k \in 1..((Len(a) - start + 1) \div 2) |-> a[start + 2 * (k - 1) + 1]]

\* The slices a mistaken choice of ups and downs takes when the first bin is
\* active: the first toggle is read as the start of an avalanche.
FirstToggleUp(counts, thresh) ==
    LET toggles == TogglesFrom(ActiveBins(counts, thresh), 0)
        ups == EverySecond(toggles, 0)
        downs == EverySecond(toggles, 1)
    IN  [k \in 1..Min2(Len(ups), Len(downs)) |->
            [from |-> ups[k] + 2, to |-> downs[k] + 1]]

\* The slices [up + 1:down + 1] that avalanches takes from counts, as first
\* and last position counted from 1.
avalanche_slices(counts, thresh) ==
    LET active == ActiveBins(counts, thresh)
        toggles == TogglesFrom(active, 0)
        ups == IF active[1] THEN EverySecond(toggles, 1)
               ELSE EverySecond(toggles, 0)
        downs == IF active[1] THEN EverySecond(toggles, 2)
                 ELSE EverySecond(toggles, 1)
    IN  [k \in 1..Min2(Len(ups), Len(downs)) |->
            [from |-> ups[k] + 2, to |-> downs[k] + 1]]

\* sd.avalanches(thresh, bin_size)
avalanches(s, thresh, bin_size) ==
    LET counts == binned(s, bin_size).sums
        slices == avalanche_slices(counts, thresh)
    IN  [kind |-> "avalanches", module |-> "analysis/analysis.py",
         thresh |-> thresh, bin_size |-> bin_size, counts |-> counts,
         slices |-> slices,
         av |-> [k \in 1..Len(slices) |->
                    SubSeq(counts, slices[k].from, slices[k].to)]]

\* binned(bin_size) of the older module: the counts of the bins
\* [k * bin_size, (k + 1) * bin_size) up to the bin of the last spike, and
\* the single count 0 for a store without spikes.
legacy_binned(s, bin_size) ==
    LET times == Hstack(s.train)
        last == IF times = <<>> THEN 0 ELSE Max(Range(times)) \div bin_size
    IN  [b \in 1..(last + 1) |->
            Cardinality({k \in 1..Len(times) :
                            times[k] \div bin_size = b - 1})]

\* The runs the generator of the older module yields from position k on,
\* `from` being the start of the run it is collecting (0 for none).
RECURSIVE LegacyRuns(_, _, _, _)
LegacyRuns(counts, thresh, k, from) ==
    IF k > Len(counts)
    THEN IF from > 0 THEN <<[from |-> from, to |-> Len(counts)]>> ELSE <<>>
    ELSE IF counts[k] * thresh[2] > thresh[1]
         THEN LegacyRuns(counts, thresh, k + 1, IF from > 0 THEN from ELSE k)
         ELSE (IF from > 0 THEN <<[from |-> from, to |-> k - 1]>> ELSE <<>>)
                \o LegacyRuns(counts, thresh, k + 1, 0)

\* sd.avalanches(thresh, bin_size) of the older module.
legacy_avalanches(s, thresh, bin_size) ==
    LET counts == legacy_binned(s, bin_size)
        slices == LegacyRuns(counts, thresh, 1, 0)
    IN  [kind |-> "avalanches", module |-> "analysis.py",
         thresh |-> thresh, bin_size |-> bin_size, counts |-> counts,
         slices |-> slices,
         av |-> [k \in 1..Len(slices) |->
                    SubSeq(counts, slices[k].from, slices[k].to)]]

AvTimes == 0..MaxAvTime
Thresholds == {Rat(t, 1) : t \in 0..MaxThresh}

\* The worked example of avalanche segmentation: a store of one unit whose
\* bins of size 1 hold the counts [0,0,5,6,2,0,0,4,0], and the threshold 3.
AvExample ==
    [train |-> <<3, 3, 3, 3, 3, 4, 4, 4, 4, 4, 4, 5, 5, 8, 8, 8, 8>>,
     length |-> 9, bin_size |-> 1, thresh |-> Rat(3, 1),
     counts |-> <<0, 0, 5, 6, 2, 0, 0, 4, 0>>,
     avalanches |-> <<(<<5, 6>>), (<<4>>)>>,
     sizes |-> <<11, 4>>, durations |-> <<2, 1>>]

\* The thresholds avalanches is called with on the store s.
ThresholdsFor(s) ==
    IF s.train = <<AvExample.train>> THEN Thresholds \cup {AvExample.thresh}
    ELSE Thresholds

\* sd = SpikeData(idces, times, N=1, length=length): one unit, a positive
\* length, times that are not negative.
ObserveActivity ==
    /\ op.name = "none"
    /\ \/ \E n \in 0..MaxAvEvents : \E times \in [1..n -> AvTimes] :
            \E length \in 1..MaxAvTime :
                Built(Call([k \in 1..n |-> 0], Some(times), Some(1),
                           Some(length)))
       \/ Built(Call([k \in 1..Len(AvExample.train) |-> 0],
                     Some(AvExample.train), Some(1), Some(AvExample.length)))
    /\ op' = [NoOp EXCEPT !.name = "init"]
    /\ UNCHANGED <<other, res, analysis>>

CallAvalanches ==
    /\ sd.ok
    /\ mat.kind = "none"
    /\ \E thresh \in ThresholdsFor(sd) : \E bin_size \in 1..MaxBin :
        mat' = avalanches(sd, thresh, bin_size)
    /\ UNCHANGED <<sd, other, res, op, vec>>

CallLegacyAvalanches ==
    /\ sd.ok
    /\ mat.kind = "none"
    /\ \E thresh \in Thresholds : \E bin_size \in 1..MaxBin :
        mat' = legacy_avalanches(sd, thresh, bin_size)
    /\ UNCHANGED <<sd, other, res, op, vec>>

\* np.quantile(a, q) for q = q[1] / q[2] in [0, 1], by linear interpolation
\* between the two order statistics around the position q * (len(a) - 1).
Quantile(a, q) ==
    LET sorted == NpSort(a)
        pos == q[1] * (Len(a) - 1)
        lo == pos \div q[2]
        g == pos % q[2]
        hi == Min2(lo + 1, Len(a) - 1)
    IN  Rat(sorted[lo + 1] * q[2] + g * (sorted[hi + 1] - sorted[lo + 1]),
            q[2])

\* sd.avalanche_duration_size(thresh, bin_size)
avalanche_duration_size(s, thresh, bin_size) ==
    LET av == avalanches(s, thresh, bin_size).av
    IN  [durations |-> [k \in 1..Len(av) |-> Len(av[k])],
         sizes |-> [k \in 1..Len(av) |-> SumSeq(av[k])]]

\* DCCResult(dcc, p_size, p_duration).  The outcome of the power-law fits
\* is not computed here: a result that went through _p_and_alpha is the
\* value "fit", and `fits` counts the calls of _p_and_alpha.
DCCResult(dcc, p_size, p_duration, fits) ==
    [kind |-> "dcc", dcc |-> dcc, p_size |-> p_size,
     p_duration |-> p_duration, fits |-> fits]

\* A deviation from criticality that is fitted whatever the avalanches.
AlwaysFitted(s, quantile, bin_size) ==
    DCCResult("fit", "fit", "fit", 2)
        @@ [quantile |-> quantile, bin_size |-> bin_size]

\* sd.deviation_from_criticality(quantile, bin_size)
deviation_from_criticality(s, quantile, bin_size) ==
    LET thresh == Quantile(binned(s, bin_size).sums, quantile)
        ds == avalanche_duration_size(s, thresh, bin_size)
    IN  (IF Len(ds.durations) = 0
         THEN DCCResult("inf", "1.0", "1.0", 0)
         ELSE DCCResult("fit", "fit", "fit", 2))
            @@ [quantile |-> quantile, bin_size |-> bin_size]

\* The quantiles asked for: the least count, the default 0.35, the median.
Quantiles == {Rat(0, 1), Rat(35, 100), Rat(1, 2)}

CallDeviationFromCriticality ==
    /\ sd.ok
    /\ mat.kind = "none"
    /\ \E quantile \in Quantiles : \E bin_size \in 1..MaxBin :
        mat' = deviation_from_criticality(sd, quantile, bin_size)
    /\ UNCHANGED <<sd, other, res, op, vec>>

\* durations, sizes = sd.avalanche_duration_size(thresh, bin_size)
CallAvalancheDurationSize ==
    /\ sd.ok
    /\ mat.kind = "none"
    /\ \E thresh \in ThresholdsFor(sd) : \E bin_size \in 1..MaxBin :
        mat' = [kind |-> "duration_size", thresh |-> thresh,
                bin_size |-> bin_size]
               @@ avalanche_duration_size(sd, thresh, bin_size)
    /\ UNCHANGED <<sd, other, res, op, vec>>

AvalNext ==
    \/ ObserveActivity
    \/ CallAvalanches
    \/ CallLegacyAvalanches
    \/ CallDeviationFromCriticality
    \/ CallAvalancheDurationSize

SpecAval == Init /\ [][AvalNext]_vars

\* Bin k of the counts the avalanches were taken from is active.
IsActive(k) == mat.counts[k] * mat.thresh[2] > mat.thresh[1]

\* A slice is a run of active bins with an inactive bin observed before it
\* and an inactive bin observed after it.
BoundedRun(sl) ==
    /\ 1 < sl.from
    /\ sl.from <= sl.to
    /\ sl.to < Len(mat.counts)
    /\ \A k \in sl.from..sl.to : IsActive(k)
    /\ ~IsActive(sl.from - 1)
    /\ ~IsActive(sl.to + 1)

\* C16: avalanches emits only runs of active bins that have an inactive bin
\* before them and an inactive bin after them, in either module; a run
\* active at the first bin or at the last bin is not emitted.
AvalancheBoundaries ==
    mat.kind = "avalanches" =>
        \A k \in 1..Len(mat.slices) : BoundedRun(mat.slices[k])

\* The same of braingeneers/analysis/analysis.py alone.
AvalancheBoundariesNow ==
    (mat.kind = "avalanches" /\ mat.module = "analysis/analysis.py") =>
        \A k \in 1..Len(mat.slices) : BoundedRun(mat.slices[k])

\* The counts of the bins of the one unit of the store, by the binning rule.
CountsAt(bin_size) ==
    [j \in 1..ColumnsOf(sd.length, bin_size) |->
        Cardinality({k \in 1..Len(sd.train[1]) :
            ColumnOf(sd.train[1][k], bin_size,
                     ColumnsOf(sd.length, bin_size)) = j - 1})]

\* Some run of bins above the threshold lies between two bins that are not.
HasBoundedRun(counts, thresh) ==
    \E a, b \in 2..(Len(counts) - 1) :
        /\ a <= b
        /\ \A k \in a..b : counts[k] * thresh[2] > thresh[1]
        /\ ~(counts[a - 1] * thresh[2] > thresh[1])
        /\ ~(counts[b + 1] * thresh[2] > thresh[1])

\* C17: whenever no avalanche is found at the quantile threshold,
\* deviation_from_criticality returns DCCResult(dcc=inf, p_size=1.0,
\* p_duration=1.0) and has fitted nothing.
DccDegenerate ==
    (/\ mat.kind = "dcc"
     /\ ~HasBoundedRun(CountsAt(mat.bin_size),
                       Quantile(CountsAt(mat.bin_size), mat.quantile)))
    => /\ mat.dcc = "inf"
       /\ mat.p_size = "1.0"
       /\ mat.p_duration = "1.0"
       /\ mat.fits = 0

\* The sentinel has been returned for a store that has spikes but no
\* avalanche: its activity runs up to the last bin.
DccDegenerateWitness ==
    /\ mat.kind = "dcc"
    /\ mat.dcc = "inf"
    /\ mat.fits = 0
    /\ Len(sd.train[1]) > 1
    /\ LET c == CountsAt(mat.bin_size)
       IN  Len(c) > 2 /\ c[1] = 0 /\ c[Len(c)] > 0

\* At least one avalanche has been found and the fits have been made.
DccFitted == mat.kind = "dcc" /\ mat.fits = 2

---------------------------------------------------------------------------
\* Properties of the constructor and of the length of a store.

\* length is not negative and no spike of the store lies after it.
WithinLength(s) ==
    s.ok =>
        /\ 0 <= s.length
        /\ \A i \in 1..Len(s.train) : \A k \in 1..Len(s.train[i]) :
                s.train[i][k] <= s.length

\* C18: every store that is constructed, with or without an explicit
\* length, or derived by subset, subtime and append, has 0 <= length and no
\* spike time above length.
LengthInvariant ==
    /\ WithinLength(sd)
    /\ WithinLength(other)
    /\ \A k \in 1..Len(res) : WithinLength(res[k])

\* The second part of C18: a store constructed without a length has the
\* greatest spike time of its trains as length.
DefaultLength ==
    (op.name = "init" /\ op.length = None /\ res[1].ok) =>
        /\ \E i \in 1..Len(res[1].train) : \E k \in 1..Len(res[1].train[i]) :
                res[1].train[i][k] = res[1].length
        /\ \A i \in 1..Len(res[1].train) : \A k \in 1..Len(res[1].train[i]) :
                res[1].train[i][k] <= res[1].length

\* A constructor call with one sequence of times per unit, a length and no
\* number of units.
ListCall ==
    /\ op.name = "init"
    /\ op.fmt = "list"
    /\ op.N = None
    /\ op.length # None

\* C19: a store constructed from a list of k sequences of times, sequences
\* of two spikes and empty sequences included, has N = k and as train i the
\* times of the i-th sequence in non-decreasing order.
ConstructFromLists ==
    ListCall =>
        /\ res[1].ok
        /\ res[1].N = Len(op.arg1)
        /\ Len(res[1].train) = Len(op.arg1)
        /\ \A i \in 1..Len(op.arg1) :
            /\ IsSorted(res[1].train[i])
            /\ BagOf(res[1].train[i]) = BagOf(op.arg1[i])

\* The same for the lists in which some sequence has a number of spikes
\* other than two.
ConstructFromListsNotPairs ==
    (ListCall /\ \E i \in 1..Len(op.arg1) : Len(op.arg1[i]) # 2) =>
        /\ res[1].ok
        /\ res[1].N = Len(op.arg1)
        /\ Len(res[1].train) = Len(op.arg1)
        /\ \A i \in 1..Len(op.arg1) :
            /\ IsSorted(res[1].train[i])
            /\ BagOf(res[1].train[i]) = BagOf(op.arg1[i])

\* All times a constructor call passes, and all times of a store, as one
\* sequence each.
InputTimes ==
    IF op.fmt = "pairs" THEN Val(op.arg2) ELSE Hstack(op.arg1)

\* C20: a store constructed with a number of units N, from either format,
\* has exactly N trains and self.N = N, and holds every spike of the input.
UnitCountHint ==
    (op.name = "init" /\ op.N # None /\ res[1].ok) =>
        /\ res[1].N = Val(op.N)
        /\ Len(res[1].train) = Val(op.N)
        /\ BagOf(Hstack(res[1].train)) = BagOf(InputTimes)

\* The same for the calls whose N is large enough for the input: as many
\* indices as times and N above every index in the pair format, and at most
\* N sequences, not read as pairs, in the list format.
UnitCountHintLargeEnough ==
    (/\ op.name = "init"
     /\ op.N # None
     /\ res[1].ok
     /\ IF op.fmt = "pairs"
        THEN /\ Len(op.arg1) = Len(Val(op.arg2))
             /\ \A k \in 1..Len(op.arg1) : op.arg1[k] < Val(op.N)
        ELSE /\ Len(op.arg1) <= Val(op.N)
             /\ \E i \in 1..Len(op.arg1) : Len(op.arg1[i]) # 2)
    => /\ res[1].N = Val(op.N)
       /\ Len(res[1].train) = Val(op.N)
       /\ BagOf(Hstack(res[1].train)) = BagOf(InputTimes)

---------------------------------------------------------------------------
\* Per-unit metadata: neuron_attributes, a list of objects, and neuron_data,
\* a dict of lists.  A store that carries them is a store record with the
\* two fields neuron_attributes (a sequence) and neuron_data (a function
\* from keys to sequences).

MaxMetaEvents == 2  \* spikes of a store constructed with metadata

NoData == [k \in {} |-> <<>>]

\* The tail of SpikeData.__init__: the constructor installs copies of the
\* neuron_attributes list and of the neuron_data dict and, after the trains
\* are built, raises ValueError if some neuron_data entry has a number of
\* values other than N.  s is what the rest of the constructor built.
Checked(s, neuron_attributes, neuron_data) ==
    IF ~s.ok
    THEN s @@ [neuron_attributes |-> <<>>, neuron_data |-> NoData]
    ELSE IF \E k \in DOMAIN neuron_data : Len(neuron_data[k]) # s.N
    THEN Raised("ValueError")
            @@ [neuron_attributes |-> <<>>, neuron_data |-> NoData]
    ELSE s @@ [neuron_attributes |-> neuron_attributes,
               neuron_data |-> neuron_data]

\* The elements of vs at the positions p with keep[p], in order.
RECURSIVE Compress(_, _)
Compress(vs, keep) ==
    IF vs = <<>> THEN <<>>
    ELSE (IF keep[1] THEN <<vs[1]>> ELSE <<>>)
         \o Compress(Tail(vs), Tail(keep))

\* SpikeData.subset(units, by): units is a list, by is None or Some(key).
\* cond(i) is `i in units`, or `self.neuron_data[by][i] in units`, which
\* raises KeyError for a key the dict does not hold and IndexError past the
\* end of the list.  neuron_attributes is indexed with the elements of
\* units, in their order, and only if it has at least len(units) entries.
subset_by(s, units, by, live) ==
    LET n == Len(s.train)
        most == Max({n} \cup {Len(s.neuron_data[k]) : k \in DOMAIN s.neuron_data})
        cond(i) == IF by = None THEN i \in Range(units)
                   ELSE s.neuron_data[Val(by)][i + 1] \in Range(units)
        keep == [p \in 1..most |-> cond(p - 1)]
        train == Compress(s.train, SubSeq(keep, 1, n))
        argIds == Compress(s.ids, SubSeq(keep, 1, n))
        neuron_data == [k \in DOMAIN s.neuron_data |->
                          Compress(s.neuron_data[k],
                                   SubSeq(keep, 1, Len(s.neuron_data[k])))]
        picks == Len(s.neuron_attributes) >= Len(units)
        neuron_attributes ==
            IF picks
            THEN [k \in 1..Len(units) |-> s.neuron_attributes[units[k] + 1]]
            ELSE <<>>
    IN  IF by # None /\ most > 0 /\ Val(by) \notin DOMAIN s.neuron_data
        THEN Checked(Raised("KeyError"), <<>>, NoData)
        ELSE IF by # None /\ most > 0 /\ Len(s.neuron_data[Val(by)]) < most
        THEN Checked(Raised("IndexError"), <<>>, NoData)
        ELSE IF picks /\ \E k \in 1..Len(units) :
                            units[k] >= Len(s.neuron_attributes)
        THEN Checked(Raised("IndexError"), <<>>, NoData)
        ELSE Checked(SpikeDataInit(train, None, Some(Len(train)),
                                   Some(s.length), argIds, live),
                     neuron_attributes, neuron_data)

\* subtime and append hand self.neuron_attributes and self.neuron_data to
\* the constructor.
subtime_with(s, start, end, live) ==
    Checked(subtime(s, start, end, live), s.neuron_attributes, s.neuron_data)

append_with(s, o, offset, live) ==
    Checked(append(s, o, offset, live), s.neuron_attributes, s.neuron_data)

\* dict.update
Update(d, e) ==
    [k \in DOMAIN d \cup DOMAIN e |-> IF k \in DOMAIN e THEN e[k] ELSE d[k]]

\* concatenate_spike_data extends self in place, without the constructor:
\* self.neuron_data.update(sd.neuron_data) and
\* self.neuron_attributes += sd.neuron_attributes.
concatenate_with(s, o, live) ==
    LET o2 == IF o.length = s.length THEN o
              ELSE subtime_with(o, Some(0), Some(s.length), live)
        c == concatenate_spike_data(s, o, live)
    IN  IF ~o2.ok THEN s
        ELSE [s EXCEPT !.train = c.train,
                       !.ids = c.ids,
                       !.N = c.N,
                       !.neuron_data = Update(@, o2.neuron_data),
                       !.neuron_attributes = @ \o o2.neuron_attributes]

\* The attribute object given to the unit at position i of a constructor
\* call, and the values of the neuron_data key "id".
Attr(i) == <<"attr", i>>

IdValues == Units

\* sd = SpikeData(trains, length=length, neuron_attributes=...,
\* neuron_data=...): no neuron_data or the key "id", no attributes or one
\* per unit.
ConstructWith ==
    /\ op.name = "none"
    /\ \E n \in 1..MaxUnits : \E train \in TrainLists(n, MaxMetaEvents) :
        \E length \in 1..MaxTime :
        \E neuron_data \in {NoData} \cup
                {[k \in {"id"} |-> v] : v \in SeqsUpTo(IdValues, MaxUnits)} :
        \E neuron_attributes \in {<<>>, [i \in 1..n |-> Attr(i)]} :
            LET s == Checked(SpikeDataInit(train, None, None, Some(length),
                                           <<>>, {}),
                             neuron_attributes, neuron_data)
            IN  /\ s.ok
                /\ sd' = s
    /\ other' = NoStore
    /\ res' = <<>>
    /\ op' = [name |-> "init"]
    /\ UNCHANGED analysis

CallSubsetBy ==
    /\ Fresh
    /\ \E units \in SeqsUpTo(Units, MaxUnits), by \in {None, Some("id")} :
         /\ res' = <<subset_by(sd, units, by, IdsOf(sd))>>
         /\ op' = [name |-> "subset", units |-> units, by |-> by]
    /\ other' = NoStore
    /\ UNCHANGED sd
    /\ UNCHANGED analysis

CallSubtimeWith ==
    /\ Fresh
    /\ \E start \in TimeArgs, end \in TimeArgs :
         /\ res' = <<subtime_with(sd, start, end, IdsOf(sd))>>
         /\ op' = [name |-> "subtime", start |-> start, end |-> end]
    /\ other' = NoStore
    /\ UNCHANGED sd
    /\ UNCHANGED analysis

CallAppendWith ==
    /\ Derived
    /\ \E x \in Args, offset \in 0..MaxOffset :
         /\ res' = <<append_with(sd, x, offset, IdsOf(sd) \cup IdsOf(x))>>
         /\ other' = x
         /\ op' = [name |-> "append", offset |-> offset]
    /\ UNCHANGED sd
    /\ UNCHANGED analysis

CallConcatenateWith ==
    /\ Derived
    /\ \E x \in Args :
         /\ sd.N + x.N <= MaxUnits
         /\ Len(sd.neuron_attributes) + Len(x.neuron_attributes) <= MaxUnits
         /\ sd' = concatenate_with(sd, x, IdsOf(sd) \cup IdsOf(x))
         /\ other' = x
    /\ res' = <<>>
    /\ op' = [name |-> "concatenate"]
    /\ UNCHANGED analysis

\* The program goes on with a store the last operation returned, if it is no
\* larger than what the constructor is given here.
AdoptWith ==
    /\ op.name \notin {"none", "init", "adopt"}
    /\ \E s \in Args :
         /\ s.ok
         /\ Small(s)
         /\ Len(s.neuron_attributes) <= MaxUnits
         /\ sd' = Renamed(s)
    /\ other' = NoStore
    /\ res' = <<>>
    /\ op' = [name |-> "adopt"]
    /\ UNCHANGED analysis

MetaNext ==
    \/ ConstructWith
    \/ CallSubsetBy
    \/ CallSubtimeWith
    \/ CallAppendWith
    \/ CallConcatenateWith
    \/ AdoptWith

SpecMeta == Init /\ [][MetaNext]_vars

\* The positions of the units of sd that the last subset call selects, in
\* unit order: those whose index is in units, or whose neuron_data value
\* under the key `by` is in units.
Retained ==
    SelectSeq([i \in 1..sd.N |-> i],
              LAMBDA i : IF op.by = None THEN (i - 1) \in Range(op.units)
                         ELSE sd.neuron_data[Val(op.by)][i] \in Range(op.units))

\* What C21 says of the store a subset call returned.
SubsetOfRetained ==
    /\ res[1].N = Len(Retained)
    /\ res[1].train = [k \in 1..Len(Retained) |-> sd.train[Retained[k]]]
    /\ res[1].length = sd.length
    /\ DOMAIN res[1].neuron_data = DOMAIN sd.neuron_data
    /\ \A key \in DOMAIN sd.neuron_data :
        res[1].neuron_data[key] =
            [k \in 1..Len(Retained) |-> sd.neuron_data[key][Retained[k]]]

\* The receiver of the last call holds one train and one value of every
\* neuron_data entry per unit.
Aligned(s) ==
    s.ok =>
        /\ Len(s.train) = s.N
        /\ \A key \in DOMAIN s.neuron_data : Len(s.neuron_data[key]) = s.N

\* C21: the store subset(units) or subset(units, by=key) returns holds
\* exactly the trains of the selected units, in unit order and equal to the
\* original trains, has N = the number of selected units and the length of
\* the original, and every neuron_data list cut down to the same units.
SubsetResult ==
    (op.name = "subset" /\ Aligned(sd) /\ res[1].ok) => SubsetOfRetained

\* The same for the calls that select no unit or some unit whose train
\* holds a number of spikes other than two.
SubsetResultNotPairs ==
    (/\ op.name = "subset"
     /\ Aligned(sd)
     /\ res[1].ok
     /\ \/ Retained = <<>>
        \/ \E k \in 1..Len(Retained) : Len(sd.train[Retained[k]]) # 2)
    => SubsetOfRetained

\* C29: every store the program holds has N trains and N values in every
\* neuron_data entry.
MetadataAligned ==
    /\ Aligned(sd)
    /\ Aligned(other)
    /\ \A k \in 1..Len(res) : Aligned(res[k])

\* The same for the stores the constructor returns, whether called by the
\* program or by subset, subtime and append.
MetadataAlignedFromConstructor ==
    \A k \in 1..Len(res) : Aligned(res[k])

\* C30: for a store with one neuron_attributes entry per unit, the store
\* subset returns has one entry per retained unit, and its k-th entry is the
\* attribute object of the unit whose train is the k-th train.
SubsetAttributes ==
    (/\ op.name = "subset"
     /\ Aligned(sd)
     /\ Len(sd.neuron_attributes) = sd.N
     /\ res[1].ok)
    => res[1].neuron_attributes =
            [k \in 1..Len(Retained) |-> sd.neuron_attributes[Retained[k]]]

\* The same for the calls without `by` whose units are distinct indices of
\* units of the store, in increasing order.
SubsetAttributesInOrder ==
    (/\ op.name = "subset"
     /\ Aligned(sd)
     /\ Len(sd.neuron_attributes) = sd.N
     /\ res[1].ok
     /\ op.by = None
     /\ \A k \in 1..Len(op.units) : op.units[k] < sd.N
     /\ \A k \in 1..(Len(op.units) - 1) : op.units[k] < op.units[k + 1])
    => res[1].neuron_attributes =
            [k \in 1..Len(Retained) |-> sd.neuron_attributes[Retained[k]]]

---------------------------------------------------------------------------
\* The burstiness index.

MaxBurstTime == 7    \* spike times and lengths of the stores it is taken of
MaxBurstEvents == 7  \* number of spikes of those stores

\* int(np.round(n * num / den)): numpy rounds a half to the even neighbour.
RoundHalfEven(n, num, den) ==
    LET q == (n * num) \div den
        r == (n * num) % den
    IN  IF 2 * r < den THEN q
        ELSE IF 2 * r > den THEN q + 1
        ELSE IF q % 2 = 0 THEN q ELSE q + 1

\* The tail of burstiness_index, common to both modules: counts is the
\* array of bin counts.  The value is a rational, or NaN (0 / 0) when the
\* counts sum to zero.
BurstinessOf(counts, bin_size, module) ==
    LET sorted == NpSort(counts)
        n == Len(sorted)
        N85 == RoundHalfEven(n, 85, 100)
        top == SumSeq(SubSeq(sorted, N85 + 1, n))
        total == SumSeq(sorted)
        f15 == Rat(top, total)
    IN  [kind |-> "burstiness", module |-> module, bin_size |-> bin_size,
         counts |-> sorted, N85 |-> N85,
         nan |-> N85 # n /\ total = 0,
         value |-> IF N85 = n THEN Rat(1, 1)
                   ELSE IF total = 0 THEN Rat(0, 1)
                   ELSE Reduced(RatDiv(RatSub(f15, Rat(15, 100)),
                                       Rat(85, 100)))]

\* sd.burstiness_index(bin_size) of braingeneers/analysis/analysis.py and
\* of braingeneers/analysis.py.
burstiness_index(s, bin_size) ==
    BurstinessOf(binned(s, bin_size).sums, bin_size, "analysis/analysis.py")

legacy_burstiness_index(s, bin_size) ==
    BurstinessOf(legacy_binned(s, bin_size), bin_size, "analysis.py")

\* The non-decreasing sequences of n times from lo..hi.
RECURSIVE SortedTimes(_, _, _)
SortedTimes(n, lo, hi) ==
    IF n = 0 THEN {<<>>}
    ELSE UNION {{<<t>> \o rest : rest \in SortedTimes(n - 1, t, hi)} :
                    t \in lo..hi}

\* sd = SpikeData(idces, times, N=1, length=length) with one unit.
ObserveBursts ==
    /\ op.name = "none"
    /\ \E n \in 0..MaxBurstEvents : \E times \in SortedTimes(n, 1, MaxBurstTime) :
        \E length \in 1..MaxBurstTime :
            Built(Call([k \in 1..n |-> 0], Some(times), Some(1),
                       Some(length)))
    /\ op' = [NoOp EXCEPT !.name = "init"]
    /\ UNCHANGED <<other, res, analysis>>

CallBurstinessIndex ==
    /\ sd.ok
    /\ mat.kind = "none"
    /\ \E bin_size \in 1..MaxBin : mat' = burstiness_index(sd, bin_size)
    /\ UNCHANGED <<sd, other, res, op, vec>>

CallLegacyBurstinessIndex ==
    /\ sd.ok
    /\ mat.kind = "none"
    /\ \E bin_size \in 1..MaxBin : mat' = legacy_burstiness_index(sd, bin_size)
    /\ UNCHANGED <<sd, other, res, op, vec>>

BurstNext ==
    \/ ObserveBursts
    \/ CallBurstinessIndex
    \/ CallLegacyBurstinessIndex

SpecBurst == Init /\ [][BurstNext]_vars

\* The store the index was taken of holds a spike.
HasSpike == \E i \in 1..Len(sd.train) : sd.train[i] # <<>>

\* C22: the burstiness index of a store with at least one spike is a number
\* from 0 to 1, for every bin size.
BurstinessRange ==
    (mat.kind = "burstiness" /\ HasSpike) =>
        /\ ~mat.nan
        /\ 0 <= mat.value[1]
        /\ mat.value[1] <= mat.value[2]

\* The upper half of C22: the index is a number and at most 1.
BurstinessAtMostOne ==
    (mat.kind = "burstiness" /\ HasSpike) =>
        /\ ~mat.nan
        /\ mat.value[1] <= mat.value[2]

\* The lower half of C22 for the stores that are cut into fewer than 7
\* bins, 7 being the least number of bins of which the top 15 %,
\* round(0.85 * n) bins being left out, are less than 15 % of the bins.
BurstinessFewBins ==
    (mat.kind = "burstiness" /\ HasSpike /\ Len(mat.counts) < 7)
        => 0 <= mat.value[1]

---------------------------------------------------------------------------
\* The content of the avalanches.

\* The maximal runs of bins above the threshold that have a bin at or below
\* it on either side, as pairs of first and last position.
Runs(counts, thresh) ==
    {r \in (2..(Len(counts) - 1)) \X (2..(Len(counts) - 1)) :
        /\ r[1] <= r[2]
        /\ \A k \in r[1]..r[2] : counts[k] * thresh[2] > thresh[1]
        /\ ~(counts[r[1] - 1] * thresh[2] > thresh[1])
        /\ ~(counts[r[2] + 1] * thresh[2] > thresh[1])}

\* The k-th of these runs in time order.
RunAt(counts, thresh, k) ==
    CHOOSE r \in Runs(counts, thresh) :
        Cardinality({q \in Runs(counts, thresh) : q[1] < r[1]}) = k - 1

\* C23: avalanches returns, in time order and once each, the counts of
\* every maximal run of bins above the threshold that has an inactive bin on
\* both sides, and avalanche_duration_size returns the number of bins and the
\* sum of the counts of each of them.
AvalancheContent ==
    LET counts == CountsAt(mat.bin_size)
        runs == Runs(counts, mat.thresh)
    IN  /\ (mat.kind = "avalanches" /\ mat.module = "analysis/analysis.py") =>
            /\ Len(mat.av) = Cardinality(runs)
            /\ \A k \in 1..Len(mat.av) :
                mat.av[k] = SubSeq(counts, RunAt(counts, mat.thresh, k)[1],
                                   RunAt(counts, mat.thresh, k)[2])
        /\ mat.kind = "duration_size" =>
            /\ Len(mat.durations) = Cardinality(runs)
            /\ Len(mat.sizes) = Cardinality(runs)
            /\ \A k \in 1..Cardinality(runs) :
                LET r == RunAt(counts, mat.thresh, k)
                IN  /\ mat.durations[k] = r[2] - r[1] + 1
                    /\ mat.sizes[k] = SumSeq(SubSeq(counts, r[1], r[2]))

\* The worked example has been segmented.
AvalancheContentWitness ==
    /\ mat.kind = "avalanches"
    /\ mat.module = "analysis/analysis.py"
    /\ mat.counts = AvExample.counts
    /\ mat.thresh = AvExample.thresh
    /\ mat.av = AvExample.avalanches

\* Its durations and sizes have been taken.
AvalancheSizesExample ==
    /\ mat.kind = "duration_size"
    /\ sd.train = <<AvExample.train>>
    /\ mat.bin_size = AvExample.bin_size
    /\ mat.thresh = AvExample.thresh
    /\ mat.durations = AvExample.durations
    /\ mat.sizes = AvExample.sizes

---------------------------------------------------------------------------
\* The count of spikes near another train.

\* C24: _sttc_na(A, B, delt) is the number of spikes a of A for which some
\* spike b of B has |a - b| <= delt, and 0 when B is empty.
SttcNaCount ==
    mat.kind = "sttc_na" =>
        LET A == sd.train[mat.i]
            B == sd.train[mat.j]
        IN  mat.value =
                Cardinality({k \in 1..Len(A) :
                    \E m \in 1..Len(B) : Abs(A[k] - B[m]) <= mat.delt})

\* A count taken against a train of a single spike, of a train that has a
\* spike within delt of it and one that is not.
SttcNaWitness ==
    /\ mat.kind = "sttc_na"
    /\ Len(sd.train[mat.j]) = 1
    /\ mat.value > 0
    /\ mat.value < Len(sd.train[mat.i])

\* A count of a train with a spike before the first spike of the other
\* train, which has more than one, and within delt of it.
SttcNaBefore ==
    /\ mat.kind = "sttc_na"
    /\ Len(sd.train[mat.j]) > 1
    /\ mat.value > 0
    /\ \A k \in 1..Len(sd.train[mat.i]) :
        sd.train[mat.i][k] < sd.train[mat.j][1]

\* The same with a spike after the last spike of the other train.
SttcNaAfter ==
    /\ mat.kind = "sttc_na"
    /\ Len(sd.train[mat.j]) > 1
    /\ mat.value > 0
    /\ \A k \in 1..Len(sd.train[mat.i]) :
        sd.train[mat.i][k] > sd.train[mat.j][Len(sd.train[mat.j])]

---------------------------------------------------------------------------
\* Burst detection.

MaxDetTime == 4     \* spike times passed to burst_detection are 0..MaxDetTime
MaxDetEvents == 4   \* number of spike times passed to burst_detection
MaxGap == 2         \* burst thresholds are 0..MaxGap
MaxNumThr == 3      \* spike number thresholds are 1..MaxNumThr

\* The first loop of burst_detection from Python index i on: spike_num_burst
\* counts the spikes of the run that is open, and a run is entered in the
\* list when an interval above the threshold ends it.
RECURSIVE BurstLoop(_, _, _, _, _, _)
BurstLoop(spike_times, burst_threshold, spike_num_thr, i, spike_num_burst, spike_num_list) ==
    IF i >= Len(spike_times) - 1 THEN spike_num_list
    ELSE IF spike_times[i + 2] - spike_times[i + 1] <= burst_threshold
    THEN BurstLoop(spike_times, burst_threshold, spike_num_thr, i + 1,
                   spike_num_burst + 1, spike_num_list)
    ELSE IF spike_num_burst >= spike_num_thr
    THEN BurstLoop(spike_times, burst_threshold, spike_num_thr, i + 1, 1,
                   Append(spike_num_list,
                          <<i - spike_num_burst + 1, spike_num_burst>>))
    ELSE BurstLoop(spike_times, burst_threshold, spike_num_thr, i + 1, 1,
                   spike_num_list)

\* burst_detection(spike_times, burst_threshold, spike_num_thr)
burst_detection(spike_times, burst_threshold, spike_num_thr) ==
    LET spike_num_list == BurstLoop(spike_times, burst_threshold,
                                    spike_num_thr, 0, 1, <<>>)
        burst_set == Hstack([k \in 1..Len(spike_num_list) |->
                        [m \in 1..spike_num_list[k][2] |->
                            spike_times[spike_num_list[k][1] + m]]])
    IN  [kind |-> "bursts", spike_times |-> spike_times,
         burst_threshold |-> burst_threshold,
         spike_num_thr |-> spike_num_thr,
         spike_num_list |-> spike_num_list, burst_set |-> burst_set]

CallBurstDetection ==
    /\ mat.kind = "none"
    /\ \E n \in 0..MaxDetEvents :
        \E spike_times \in SortedTimes(n, 0, MaxDetTime) :
        \E burst_threshold \in 0..MaxGap :
        \E spike_num_thr \in 1..MaxNumThr :
            mat' = burst_detection(spike_times, burst_threshold, spike_num_thr)
    /\ UNCHANGED <<sd, other, res, op, vec>>

DetNext ==
    \/ CallBurstDetection

SpecDet == Init /\ [][DetNext]_vars

\* The maximal runs of consecutive spikes of the last call whose intervals
\* are all at most the threshold, as pairs of first and last position.
DetRuns ==
    LET t == mat.spike_times
    IN  {r \in (1..Len(t)) \X (1..Len(t)) :
            /\ r[1] <= r[2]
            /\ \A k \in r[1]..(r[2] - 1) :
                t[k + 1] - t[k] <= mat.burst_threshold
            /\ r[1] = 1 \/ t[r[1]] - t[r[1] - 1] > mat.burst_threshold
            /\ r[2] = Len(t) \/ t[r[2] + 1] - t[r[2]] > mat.burst_threshold}

\* The runs in S reported as the claim says: an entry [s, n] for each run of
\* at least spike_num_thr spikes, in order, and their spike times.
Reported(S) ==
    LET bursts == {r \in S : r[2] - r[1] + 1 >= mat.spike_num_thr}
        at(k) == CHOOSE r \in bursts :
                    Cardinality({q \in bursts : q[1] < r[1]}) = k - 1
    IN  /\ Len(mat.spike_num_list) = Cardinality(bursts)
        /\ \A k \in 1..Len(mat.spike_num_list) :
            mat.spike_num_list[k] = <<at(k)[1] - 1, at(k)[2] - at(k)[1] + 1>>
        /\ mat.burst_set =
            Hstack([k \in 1..Cardinality(bursts) |->
                        SubSeq(mat.spike_times, at(k)[1], at(k)[2])])

\* C25: spike_num_list has an entry [s, n] for every maximal run of
\* n >= spike_num_thr spikes with intervals at most burst_threshold, a run
\* that lasts until the final spike included, and for no other run, and
\* burst_set holds the spike times of these runs.
BurstsComplete ==
    mat.kind = "bursts" => Reported(DetRuns)

\* The same without the run that lasts until the final spike.
BurstsBeforeLastRun ==
    mat.kind = "bursts" =>
        Reported({r \in DetRuns : r[2] < Len(mat.spike_times)})

---------------------------------------------------------------------------
\* The significance of a power-law fit.  The fits of the powerlaw package
\* and the Kolmogorov-Smirnov test of scipy are not part of the program;
\* what they return is chosen freely from small sets.

MaxData == 2        \* len(data) is 1..MaxData
MaxSurrogate == 3   \* N_surrogate is 1..MaxSurrogate
MaxKs == 2          \* KS statistics are 0/MaxKs .. MaxKs/MaxKs

\* stats.ks_1samp(x, cdf): a result tuple (statistic, pvalue).  The p-value
\* is a decreasing function of the statistic for samples of one size; only
\* its order matters here.
KsResult(d) == <<d, MaxKs - d>>

\* a > b for two result tuples: Python compares tuples lexicographically.
TupleGreater(a, b) ==
    \/ a[1] > b[1]
    \/ a[1] = b[1] /\ a[2] > b[2]

\* A significance that counts the surrogates that are at least as far from
\* the fitted distribution as the data.
PAndAlphaAtLeast(n, N_surrogate, pval_truncated, stat, p, d, surrogates) ==
    LET dist == IF stat < 0 /\ p[1] * pval_truncated[2]
                                < pval_truncated[1] * p[2]
                THEN "truncated_power_law" ELSE "power_law"
        ks == KsResult(d)
        worse == [k \in 1..N_surrogate |->
                    IF ~TupleGreater(ks, KsResult(surrogates[k]))
                    THEN 1 ELSE 0]
    IN  [kind |-> "fit", n |-> n, N_surrogate |-> N_surrogate,
         pval_truncated |-> pval_truncated, stat |-> stat, pcmp |-> p,
         d |-> d, surrogates |-> surrogates,
         dist |-> dist, alpha |-> dist,
         sizes |-> [k \in 1..N_surrogate |-> n],
         p |-> Rat(SumSeq(worse), Len(worse))]

\* _p_and_alpha(data, N_surrogate, pval_truncated) for data of n values,
\* where (stat, p) is what fit.distribution_compare returns, d the KS
\* statistic of the data against the chosen distribution, and surrogates the
\* KS statistics of the N_surrogate samples that dist.generate_random(n)
\* returns.  np.mean of the list of comparisons is their sum over their
\* number.
p_and_alpha(n, N_surrogate, pval_truncated, stat, p, d, surrogates) ==
    LET dist == IF stat < 0 /\ p[1] * pval_truncated[2]
                                < pval_truncated[1] * p[2]
                THEN "truncated_power_law" ELSE "power_law"
        ks == KsResult(d)
        worse == [k \in 1..N_surrogate |->
                    IF TupleGreater(KsResult(surrogates[k]), ks)
                    THEN 1 ELSE 0]
    IN  [kind |-> "fit", n |-> n, N_surrogate |-> N_surrogate,
         pval_truncated |-> pval_truncated, stat |-> stat, pcmp |-> p,
         d |-> d, surrogates |-> surrogates,
         dist |-> dist, alpha |-> dist,
         sizes |-> [k \in 1..N_surrogate |-> n],
         p |-> Rat(SumSeq(worse), Len(worse))]

\* The significance levels, and the p-values and signs of the likelihood
\* ratio that the comparison of the two fits may return.
TruncationLevels == {Rat(0, 1), Rat(5, 100)}
ComparisonPValues == {Rat(0, 1), Rat(1, 100), Rat(5, 100), Rat(1, 1)}
LikelihoodRatios == {-1, 0, 1}

CallPAndAlpha ==
    /\ mat.kind = "none"
    /\ \E n \in 1..MaxData : \E N_surrogate \in 1..MaxSurrogate :
        \E pval_truncated \in TruncationLevels :
        \E stat \in LikelihoodRatios : \E p \in ComparisonPValues :
        \E d \in 0..MaxKs : \E surrogates \in [1..N_surrogate -> 0..MaxKs] :
            mat' = p_and_alpha(n, N_surrogate, pval_truncated, stat, p, d,
                               surrogates)
    /\ UNCHANGED <<sd, other, res, op, vec>>

FitNext ==
    \/ CallPAndAlpha

SpecFit == Init /\ [][FitNext]_vars

\* C26: _p_and_alpha uses the truncated power law exactly when the
\* likelihood ratio favours it (stat < 0) with a p-value below
\* pval_truncated, and the plain power law otherwise; it draws N_surrogate
\* surrogates of the size of the data; and p is the fraction of them whose
\* KS statistic exceeds that of the data, a number from 0 to 1.
FitSignificance ==
    mat.kind = "fit" =>
        /\ mat.dist = "truncated_power_law" <=>
            (mat.stat < 0 /\ mat.pcmp[1] * mat.pval_truncated[2]
                                < mat.pval_truncated[1] * mat.pcmp[2])
        /\ mat.dist \in {"truncated_power_law", "power_law"}
        /\ mat.alpha = mat.dist
        /\ Len(mat.sizes) = mat.N_surrogate
        /\ \A k \in 1..Len(mat.sizes) : mat.sizes[k] = mat.n
        /\ mat.p[2] = mat.N_surrogate
        /\ mat.p[1] = Cardinality({k \in 1..mat.N_surrogate :
                                    mat.surrogates[k] > mat.d})
        /\ 0 <= mat.p[1]
        /\ mat.p[1] <= mat.p[2]

\* A fit with the truncated power law of which some surrogates, but not
\* all, are further from the distribution than the data, and one has the
\* statistic of the data.
FitSignificanceWitness ==
    /\ mat.kind = "fit"
    /\ mat.dist = "truncated_power_law"
    /\ mat.p[1] > 0
    /\ mat.p[1] < mat.p[2]
    /\ \E k \in 1..mat.N_surrogate : mat.surrogates[k] = mat.d

---------------------------------------------------------------------------
\* buildnn.py: an AggregateCulture of leaky integrate-and-fire cultures of
\* one cell each, connected by ExponentialSynapses without noise.  Voltages,
\* inputs and synaptic activations are rationals.

MaxCultures == 2    \* number of member cultures of the aggregate
MaxSteps == 3       \* list_firings runs for 1..MaxSteps steps
MaxInput == 2       \* the constant input of a culture is 0..MaxInput
MaxWeight == 2      \* the weight G of a synapse is 0..MaxWeight

RatLe(a, b) == a[1] * b[2] <= b[1] * a[2]

\* The parameters of every culture, LIFNeurons(1, dt, Vr, Vp, tau, c,
\* t_refrac), and of every synapse, ExponentialSynapses(tau, G, Vn).
Lif == [dt |-> 1, Vr |-> 0, Vp |-> 1, tau |-> 2, c |-> 0, t_refrac |-> 0]
Syn == [tau |-> 2, Vn |-> 4]

Cultures == 1..MaxCultures

\* A synapse group for every ordered pair of different cultures.
Links == {l \in Cultures \X Cultures : l[1] # l[2]}

\* The orders in which the cultures can be passed to AggregateCulture.
Orders ==
    {o \in [Cultures -> Cultures] : \A c \in Cultures : \E k \in Cultures : o[k] = c}

\* Neurons.reset, LIFNeurons.reset and Synapses.reset: the state of a
\* network that has just been built.
Rest ==
    [V |-> [c \in Cultures |-> Rat(Lif.Vr, 1)],
     timer |-> [c \in Cultures |-> 0],
     fired |-> [c \in Cultures |-> FALSE],
     a |-> [l \in Links |-> Rat(0, 1)],
     events |-> <<>>]

\* LIFNeurons._step(Iin) of culture c: the voltage and timer after the step;
\* the culture fires if the voltage has reached Vp.
LifStep(st, c, Iin) ==
    LET V0 == IF st.fired[c] THEN Rat(Lif.c, 1) ELSE st.V[c]
        timer0 == IF st.fired[c] THEN Lif.t_refrac ELSE st.timer[c]
        leak(V) == RatMul(RatSub(V, Rat(Lif.Vr, 1)), Rat(1, Lif.tau))
        dVdt == RatSub(Iin, leak(V0))
        V_test == RatAdd(V0, RatMul(Rat(Lif.dt, 1), dVdt))
        dVdt2 == RatSub(Iin, leak(V_test))
        V1 == IF timer0 <= 0
              THEN Reduced(RatAdd(V0, RatMul(dVdt2, Rat(Lif.dt, 1))))
              ELSE V0
    IN  [V |-> V1, timer |-> timer0 - Lif.dt,
         fired |-> RatLe(Rat(Lif.Vp, 1), V1)]

\* ExponentialSynapses._step of the synapse l, which reads inputs.fired as
\* it is when the synapse is stepped.
SynStep(a, fired) ==
    LET bumped == IF fired THEN RatAdd(a, Rat(1, 1)) ELSE a
    IN  Reduced(RatSub(bumped, RatMul(Rat(Lif.dt, Syn.tau), bumped)))

\* Neurons.Isyn of culture c: the sum of (G @ a) * (Vn - outputs.V) over
\* its input synapses.
RECURSIVE SumRat(_)
SumRat(s) == IF s = <<>> THEN Rat(0, 1) ELSE RatAdd(s[1], SumRat(Tail(s)))

Isyn(st, G, c) ==
    LET from == SelectSeq([k \in Cultures |-> k], LAMBDA k : k # c)
    IN  Reduced(SumRat([k \in 1..Len(from) |->
            RatMul(RatMul(Rat(G[<<from[k], c>>], 1), st.a[<<from[k], c>>]),
                   RatSub(Rat(Syn.Vn, 1), st.V[c]))]))

\* The loop of AggregateCulture._step from position k of the order on: each
\* culture is stepped with its part of the input, and its input synapses
\* are stepped right after it, before the cultures that follow.
RECURSIVE AggregateLoop(_, _, _, _)
AggregateLoop(st, total, order, k) ==
    IF k > MaxCultures THEN st
    ELSE LET c == order[k]
             n == LifStep(st, c, total[c])
             stepped == [st EXCEPT !.V[c] = n.V, !.timer[c] = n.timer,
                                   !.fired[c] = n.fired]
             synced == [stepped EXCEPT !.a =
                          [l \in Links |->
                              IF l[2] = c
                              THEN SynStep(stepped.a[l], stepped.fired[l[1]])
                              ELSE stepped.a[l]]]
         IN  AggregateLoop(synced, total, order, k + 1)

\* Neurons.list_firings(Iin, time) of the aggregate, from step `step` on:
\* the input of the step is Iin + self.Isyn(), taken before any culture is
\* stepped, and an event (step * dt, idx) is recorded for every cell that
\* fired, idx being the position of its culture in the order.
RECURSIVE ListFirings(_, _, _, _, _, _)
ListFirings(st, G, Iin, order, step, n_steps) ==
    IF step >= n_steps THEN st
    ELSE LET total == [c \in Cultures |->
                         Reduced(RatAdd(Rat(Iin[c], 1), Isyn(st, G, c)))]
             after == AggregateLoop(st, total, order, 1)
             fired == SelectSeq([k \in Cultures |-> k],
                                LAMBDA k : after.fired[order[k]])
             events == [k \in 1..Len(fired) |->
                            <<step * Lif.dt, fired[k] - 1>>]
         IN  ListFirings([after EXCEPT !.events = @ \o events], G, Iin,
                         order, step + 1, n_steps)

\* AggregateCulture(*cultures).list_firings(Iin, time) for the cultures in
\* the given order.
list_firings(G, Iin, order, time) ==
    ListFirings(Rest, G, Iin, order, 0, Ceil(time, Lif.dt)).events

\* The same network is built and simulated once for every order of its
\* cultures.
CallListFirings ==
    /\ mat.kind = "none"
    /\ \E G \in [Links -> 0..MaxWeight] :
        \E Iin \in [Cultures -> 0..MaxInput] :
        \E time \in 1..MaxSteps :
            mat' = [kind |-> "firings", G |-> G, Iin |-> Iin, time |-> time,
                    events |-> [o \in Orders |->
                                    list_firings(G, Iin, o, time)]]
    /\ UNCHANGED <<sd, other, res, op, vec>>

AggNext ==
    \/ CallListFirings

SpecAgg == Init /\ [][AggNext]_vars

\* The times at which culture c fired in the simulation with order o.
FiringsOf(o, c) ==
    LET mine == SelectSeq(mat.events[o], LAMBDA e : o[e[2] + 1] = c)
    IN  [k \in 1..Len(mine) |-> mine[k][1]]

\* C27: every member culture fires at the same times whatever the order in
\* which the cultures were passed to the aggregate.
AggregateOrderIndependent ==
    mat.kind = "firings" =>
        \A o1, o2 \in Orders : \A c \in Cultures :
            FiringsOf(o1, c) = FiringsOf(o2, c)

\* The same for networks whose synapses all have weight 0.
AggregateUnconnected ==
    (mat.kind = "firings" /\ \A l \in Links : mat.G[l] = 0) =>
        \A o1, o2 \in Orders : \A c \in Cultures :
            FiringsOf(o1, c) = FiringsOf(o2, c)

---------------------------------------------------------------------------
\* Frames of a store.

MaxFrameTime == 4    \* spike times and lengths of the stores cut into frames
MaxFrameEvents == 3  \* number of spikes of those stores

\* zip(itertools.repeat(i), t) for the units from position i on, one after
\* the other: the (index, time) pairs of self.train.
RECURSIVE UnitEvents(_, _)
UnitEvents(train, i) ==
    IF i > Len(train) THEN <<>>
    ELSE [k \in 1..Len(train[i]) |-> <<i - 1, train[i][k]>>]
         \o UnitEvents(train, i + 1)

RECURSIVE InsertEvent(_, _)
InsertEvent(e, s) ==
    IF s = <<>> \/ e[2] <= s[1][2] THEN <<e>> \o s
    ELSE <<s[1]>> \o InsertEvent(e, Tail(s))

\* heapq.merge(..., key=lambda x: x[1]): the pairs in time order, those of
\* equal time in unit order.
RECURSIVE MergeEvents(_)
MergeEvents(flat) ==
    IF flat = <<>> THEN <<>>
    ELSE InsertEvent(flat[1], MergeEvents(Tail(flat)))

\* SpikeData.events of braingeneers/analysis.py.
events(s) == MergeEvents(UnitEvents(s.train, 1))

\* SpikeData(events, length=length) of braingeneers/analysis.py, called with
\* a list of (index, time) tuples.  An empty list gives a store without
\* units; otherwise the tuples have no spike_time, all have two elements and
\* the units are 0..max(index).
LegacySpikeData(evs, length, live) ==
    IF evs = <<>> THEN Store(<<>>, <<>>, length, 0)
    ELSE LET idces == [k \in 1..Len(evs) |-> evs[k][1]]
             times == [k \in 1..Len(evs) |-> evs[k][2]]
             p == train_from_i_t_list(idces, times, None)
             train == [i \in 1..Len(p.train) |-> NpSort(p.train[i])]
         IN  Store(train, FreshIds(Len(train), live), length, Len(train))

\* The loop of frames of braingeneers/analysis.py from the event evs[1] on:
\* `window` is the number of the window being filled and acc its events.
RECURSIVE LegacyFramesLoop(_, _, _, _, _)
LegacyFramesLoop(evs, window, acc, interval, live) ==
    IF evs = <<>> THEN <<LegacySpikeData(acc, interval, live)>>
    ELSE IF evs[1][2] >= window * interval
    THEN LET f == LegacySpikeData(acc, interval, live)
         IN  <<f>> \o LegacyFramesLoop(evs, window + 1, <<>>, interval,
                                       live \cup IdsOf(f))
    ELSE LegacyFramesLoop(Tail(evs), window,
                          Append(acc, <<evs[1][1],
                                        evs[1][2] - (window - 1) * interval>>),
                          interval, live)

\* SpikeData.frames(length, overlap) of braingeneers/analysis.py: the stores
\* the generator yields, in order.
legacy_frames(s, length, overlap, live) ==
    LegacyFramesLoop(events(s), 1, <<>>, length - overlap, live)

\* sd = SpikeData(idces, times, N=N, length=length) with every time within
\* the length.
ObserveFrames ==
    /\ op.name = "none"
    /\ \E e \in SeqsUpTo(Units \X (0..MaxFrameTime), MaxFrameEvents) :
        \E N \in ValidNs, length \in 1..MaxFrameTime :
            /\ \A k \in 1..Len(e) : e[k][2] <= length
            /\ Built(Call([k \in 1..Len(e) |-> e[k][1]],
                          Some([k \in 1..Len(e) |-> e[k][2]]), N,
                          Some(length)))
    /\ op' = [NoOp EXCEPT !.name = "init"]
    /\ UNCHANGED <<other, res, analysis>>

CallLegacyFrames ==
    /\ Fresh
    /\ \E window \in 1..MaxWindow, overlap \in 0..(MaxWindow - 1) :
         /\ window - overlap > 0
         /\ res' = legacy_frames(sd, window, overlap, IdsOf(sd))
         /\ op' = [NoOp EXCEPT !.name = "legacy_frames", !.window = window,
                               !.overlap = overlap]
    /\ UNCHANGED <<sd, other, analysis>>

FramesNext ==
    \/ ObserveFrames
    \/ CallFrames
    \/ CallLegacyFrames

SpecFrames == Init /\ [][FramesNext]_vars

\* The times of unit i in the frames r[k..], each increased by the start
\* (k - 1) * L of its frame; a frame without unit i contributes nothing.
RECURSIVE FramesBack(_, _, _, _)
FramesBack(r, k, L, i) ==
    IF k > Len(r) THEN <<>>
    ELSE (IF r[k].ok /\ i <= Len(r[k].train)
          THEN Shifted(r[k].train[i], (k - 1) * L) ELSE <<>>)
         \o FramesBack(r, k + 1, L, i)

\* The frames r of the store s for the window length L are one per start
\* 0, L, 2L, ... below s.length, each of length L with the N of s, and every
\* spike of s is in exactly one of them at its time minus the frame start.
FramesAreWindows(s, r, L) ==
    /\ Len(r) = Len(Arange(s.length, L))
    /\ \A k \in 1..Len(r) :
          /\ r[k].ok
          /\ r[k].length = L
          /\ r[k].N = s.N
          /\ Len(r[k].train) = Len(s.train)
          /\ \A i \in 1..Len(r[k].train) : \A j \in 1..Len(r[k].train[i]) :
                r[k].train[i][j] \in 0..L
    /\ \A i \in 1..Len(s.train) :
          BagOf(FramesBack(r, 1, L, i)) = BagOf(s.train[i])

\* C28: for every store and every window length L > 0 with overlap 0,
\* frames(L) of either module yields one store per start 0, L, 2L, ... below
\* the store length, each of observation length L and with the N of the
\* original, and every spike of the original appears in exactly one frame at
\* its original time minus the frame start.
FramesPartition ==
    (op.name \in {"frames", "legacy_frames"} /\ op.overlap = 0)
    => FramesAreWindows(sd, res, op.window)

\* The statement of C28 for braingeneers/analysis/analysis.py alone.
FramesPartitionNow ==
    (op.name = "frames" /\ op.overlap = 0)
    => FramesAreWindows(sd, res, op.window)

\* No window of length L of the store s keeps exactly two spikes of every
\* unit: the list of trains subtime hands to the constructor is not taken
\* for a list of (index, time) pairs.
NoFrameOfPairs(s, L) ==
    \A k \in 1..Len(Arange(s.length, L)) :
        \/ s.N = 0
        \/ \E i \in 1..Len(s.train) :
              Len(KeptShifted(s.train[i], (k - 1) * L,
                              Min2(k * L, s.length))) # 2

\* What frames of braingeneers/analysis/analysis.py yields when no window
\* is taken for a list of pairs: one store per start 0, L, 2L, ... below the
\* length, with the N of the original, holding the spikes of its window
\* shifted by the start, every spike in exactly one frame; each frame has
\* length L except the last one, which ends with the store and is shorter
\* when L does not divide the length.
FramesClampedLast ==
    (op.name = "frames" /\ op.overlap = 0
        /\ NoFrameOfPairs(sd, op.window))
    => LET L == op.window
       IN  /\ Len(res) = Len(Arange(sd.length, L))
           /\ \A k \in 1..Len(res) :
                 /\ res[k].ok
                 /\ res[k].length = Min2(L, sd.length - (k - 1) * L)
                 /\ res[k].N = sd.N
                 /\ Len(res[k].train) = Len(sd.train)
                 /\ \A i \in 1..Len(sd.train) :
                       res[k].train[i]
                           = KeptShifted(sd.train[i], (k - 1) * L,
                                         Min2(k * L, sd.length))
           /\ \A i \in 1..Len(sd.train) :
                 BagOf(FramesBack(res, 1, L, i)) = BagOf(sd.train[i])

\* So the statement of C28 holds there when L divides the length.
FramesWholeWindows ==
    (op.name = "frames" /\ op.overlap = 0 /\ sd.length % op.window = 0
        /\ NoFrameOfPairs(sd, op.window))
    => FramesAreWindows(sd, res, op.window)

\* What frames of braingeneers/analysis.py yields: one store of length L
\* per window [0, L), [L, 2L), ... up to the window of the last spike (one
\* empty store for a store without spikes), each with the units up to the
\* highest one that fires in its window, every spike in exactly one frame
\* at its time minus the frame start.
LegacyFramesEvents ==
    (op.name = "legacy_frames" /\ op.overlap = 0)
    => LET L == op.window
           evs == events(sd)
       IN  /\ Len(res) = IF evs = <<>> THEN 1
                         ELSE (evs[Len(evs)][2] \div L) + 1
           /\ \A k \in 1..Len(res) :
                 /\ res[k].ok
                 /\ res[k].length = L
                 /\ res[k].N = Len(res[k].train)
                 /\ res[k].N <= sd.N
                 /\ res[k].N > 0 => res[k].train[res[k].N] # <<>>
                 /\ \A i \in 1..Len(res[k].train) :
                       \A j \in 1..Len(res[k].train[i]) :
                           res[k].train[i][j] \in 0..(L - 1)
           /\ \A i \in 1..Len(sd.train) :
                 BagOf(FramesBack(res, 1, L, i)) = BagOf(sd.train[i])
===========================================================================
